---- MODULE Spec2Model ----
(***************************************************************************)
(* A model of the daily ayat/hadith generator: the progress cursor         *)
(* (state.py), the corpus store and the ayah combiner (database.py), the   *)
(* hadith source resolver (hadith_provider.py) and the orchestration of    *)
(* one generation (main.py, generate_for_date).                            *)
(*                                                                         *)
(* The verse corpus is the Quran: whatever rows a database holds, its      *)
(* first verse is 1:1 (the default cursor of state.py:37-38 and the wrap   *)
(* of database.py:323 both name it), and every row of the ayah table has   *)
(* its rows in the translations and surah tables.  Numbering may have      *)
(* gaps, inside a surah and between surahs.                                *)
(***************************************************************************)
EXTENDS Integers, Sequences, FiniteSets, TLC

VARIABLES
    db,         \* the sqlite database: [ayah: set of <<surah, ayah>>, mishkaat: set of
                \* numbers, dirt: the characters its texts carry around their words]
    up,         \* TRUE while a process holds a StateManager and a HadithProvider
    state,      \* StateManager.state, the in-memory DailyState
    file,       \* the contents of state.json, or NoFile
    provider,   \* the HadithProvider built at start-up, or NoProvider
    run,        \* what the last call did (history, read by the properties only)
    walk,       \* an iteration of the verse successor (SpecSucc only)
    call,       \* the last call of a method of the store (SpecStore only)
    lookup,     \* the last call of a method of the provider (SpecProvider only)
    throttle,   \* the clock and the two scrapers' request times (SpecThrottle only)
    batch,      \* what the last run of main() did (SpecMain only)
    translator  \* the TranslationGenerator and its last call (SpecKeys only)

vars == <<db, up, state, file, provider, run, walk, call, lookup, throttle, batch,
          translator>>

----------------------------------------------------------------------------
(* Bounds of the model *)

\* SpecSucc walks every corpus whose positions lie in (1..MaxSurah) x (1..MaxAyah)
MaxSurah == 3
MaxAyah == 2

----------------------------------------------------------------------------
(* Small helpers *)

MinOf(S) == CHOOSE x \in S : \A y \in S : x <= y

Raise(kind, msg) == [ok |-> FALSE, kind |-> kind, msg |-> msg]
Return(v) == [ok |-> TRUE, val |-> v]

\* A call by value: Op applied to what the argument evaluates to
Applied(Op(_), argument) == CHOOSE r \in {Op(v) : v \in {argument}} : TRUE

----------------------------------------------------------------------------
(* Dates.  A datetime.date is <<year, month, day>>; a str is the sequence  *)
(* of its character codes ("-" is 45, "0" is 48).                          *)

Digit(n) == 48 + n

\* '%04d' and '%02d' of date.isoformat()
Pad4(n) == << Digit((n \div 1000) % 10), Digit((n \div 100) % 10),
              Digit((n \div 10) % 10), Digit(n % 10) >>
Pad2(n) == << Digit((n \div 10) % 10), Digit(n % 10) >>

\* A date written without zero padding, as str(year)-str(month)-str(day)
IsoFormatUnpadded(d) ==
    LET Dec(n) == IF n < 10 THEN <<Digit(n)>>
                  ELSE IF n < 100 THEN Pad2(n)
                  ELSE IF n < 1000 THEN Tail(Pad4(n)) ELSE Pad4(n)
    IN Dec(d[1]) \o <<45>> \o Dec(d[2]) \o <<45>> \o Dec(d[3])

\* date.isoformat(): YYYY-MM-DD
IsoFormat(d) == Pad4(d[1]) \o <<45>> \o Pad2(d[2]) \o <<45>> \o Pad2(d[3])

\* Python's str > str: the first differing character decides, a proper
\* prefix is the smaller string.
RECURSIVE StrGreater(_, _)
StrGreater(a, b) ==
    IF a = <<>> THEN FALSE
    ELSE IF b = <<>> THEN TRUE
    ELSE IF Head(a) # Head(b) THEN Head(a) > Head(b)
    ELSE StrGreater(Tail(a), Tail(b))

\* hasattr(target_date, 'isoformat'): a date object, not a str
HasIsoFormat(t) == Len(t) = 3

\* The dates a run is asked for; SentinelDate is the calendar date of the
\* string state.py writes as the default last_date.
SentinelDate == <<2000, 1, 1>>
Dates == { <<1999, 12, 31>>, SentinelDate, <<2024, 1, 2>>, <<2024, 1, 10>> }

\* "2000-01-01"
SentinelStr == <<50, 48, 48, 48, 45, 48, 49, 45, 48, 49>>

----------------------------------------------------------------------------
(* StateManager (state.py) *)

NoFile == [absent |-> TRUE]

DefaultState ==
    [ last_date |-> SentinelStr, content_type |-> "hadith",
      last_surah |-> 1, last_ayah |-> 0, last_hadith |-> 0 ]

\* A default state whose cursors stand on the first verse and hadith
\* instead of before them
LoadStateAtFirstVerse(f) ==
    IF f # NoFile THEN [state |-> f, file |-> f]
    ELSE [ state |-> [DefaultState EXCEPT !.last_ayah = 1, !.last_hadith = 2],
           file |-> [DefaultState EXCEPT !.last_ayah = 1, !.last_hadith = 2] ]

\* A load that does not write the default state to the missing file
LoadStateWithoutSaving(f) ==
    IF f # NoFile THEN [state |-> f, file |-> f]
    ELSE [state |-> DefaultState, file |-> NoFile]

\* StateManager._load_state: (in-memory state, file afterwards)
LoadState(f) ==
    IF f # NoFile THEN [state |-> f, file |-> f]
    ELSE [state |-> DefaultState, file |-> DefaultState]

TargetDateStr(target_date) ==
    IF HasIsoFormat(target_date) THEN IsoFormat(target_date) ELSE target_date

\* The gate of should_generate_today (state.py:48-51), which compares with !=
ShouldGenerateNotEqual(st, target_date) ==
    TargetDateStr(target_date) # st.last_date

\* StateManager.should_generate_today; today is the clock's date
should_generate_today(st, today) == IsoFormat(today) # st.last_date

\* StateManager.should_generate_for_date
should_generate_for_date(st, target_date) ==
    StrGreater(TargetDateStr(target_date), st.last_date)

\* An optional argument: None, or Some(v)
None == <<>>
Some(v) == <<v>>
Get(o) == o[1]

\* An update that moves the hadith cursor by the number given
UpdateCountingHadith(st, content_type, surah, ayah, hadith, target_date, today) ==
    LET date_str == IF target_date = None THEN IsoFormat(today)
                    ELSE TargetDateStr(target_date)
    IN [ st EXCEPT !.last_date = date_str, !.content_type = content_type,
                   !.last_hadith = IF hadith # None THEN @ + 1 ELSE @ ]

\* StateManager.update_after_generation: the new in-memory state (which
\* _save_state then writes out in full).  today is datetime.now().date().
update_after_generation(st, content_type, surah, ayah, hadith, target_date, today) ==
    LET date_str == IF target_date = None THEN IsoFormat(today)
                    ELSE TargetDateStr(target_date)
        s1 == [st EXCEPT !.last_date = date_str, !.content_type = content_type]
        setAyah == [s1 EXCEPT !.last_surah = Get(surah), !.last_ayah = Get(ayah)]
    IN  IF content_type = "ayat" /\ surah # None /\ ayah # None THEN setAyah
        ELSE IF content_type = "hadith" /\ hadith # None
            THEN [s1 EXCEPT !.last_hadith = Get(hadith)]
        ELSE IF content_type = "both"
            THEN LET s2 == IF surah # None /\ ayah # None THEN setAyah ELSE s1
                 IN IF hadith # None THEN [s2 EXCEPT !.last_hadith = Get(hadith)] ELSE s2
        ELSE s1

\* StateManager.reset_state
reset_state == DefaultState

----------------------------------------------------------------------------
(* The database (database.py).  A text is a sequence of pieces; a piece    *)
(* stands for n characters: the stored text of one column of one row, or   *)
(* a literal the code inserts.                                             *)

Piece(k, s, a, n) == [k |-> k, s |-> s, a |-> a, n |-> n]

RECURSIVE TextLen(_)
TextLen(t) == IF t = <<>> THEN 0 ELSE Head(t).n + TextLen(Tail(t))

\* The characters _clean_text tells apart, each a piece of length 1
Char(c) == Piece(c, 0, 0, 1)
Space == Char("space")
Backslash == Char("backslash")
LetterN == Char("n")
LetterR == Char("r")
LetterT == Char("t")
Newline == Char("newline")
CarriageReturn == Char("carriage_return")
Tab == Char("tab")
\* What the regular expression \s matches
Whitespace == {Space, Newline, CarriageReturn, Tab}

\* text.replace('\\n', ' '): the two characters backslash, n
RECURSIVE ReplaceEscapedNewline(_)
ReplaceEscapedNewline(text) ==
    IF Len(text) < 2 THEN text
    ELSE IF text[1] = Backslash /\ text[2] = LetterN
         THEN <<Space>> \o ReplaceEscapedNewline(SubSeq(text, 3, Len(text)))
    ELSE <<text[1]>> \o ReplaceEscapedNewline(Tail(text))

\* text.replace('\n', ' ')
ReplaceNewline(text) ==
    [i \in 1..Len(text) |-> IF text[i] = Newline THEN Space ELSE text[i]]

\* re.sub(r'\s+', ' ', text)
RECURSIVE CollapseWhitespace(_)
CollapseWhitespace(text) ==
    IF text = <<>> THEN <<>>
    ELSE IF text[1] \in Whitespace
         THEN IF Len(text) > 1 /\ text[2] \in Whitespace
              THEN CollapseWhitespace(Tail(text))
              ELSE <<Space>> \o CollapseWhitespace(Tail(text))
    ELSE <<text[1]>> \o CollapseWhitespace(Tail(text))

\* text.strip()
RECURSIVE Strip(_)
Strip(text) ==
    IF text = <<>> THEN <<>>
    ELSE IF text[1] \in Whitespace THEN Strip(Tail(text))
    ELSE IF text[Len(text)] \in Whitespace THEN Strip(SubSeq(text, 1, Len(text) - 1))
    ELSE text

\* The statements of _clean_text after its first test, each assigning text
CleanSteps(text) ==
    Applied(Strip, Applied(CollapseWhitespace,
        Applied(ReplaceNewline, Applied(ReplaceEscapedNewline, text))))

\* IslamicDatabase._clean_text
_clean_text(text) ==
    IF text = <<>> THEN text ELSE CleanSteps(text)

\* The number of characters of the words of each column of the verse at
\* <<s, a>>: (arabic, urdu, english).
VerseWords(s, a) ==
    CASE <<s, a>> = <<1, 1>> -> <<30, 30, 30>>
      [] <<s, a>> = <<1, 2>> -> <<40, 40, 40>>
      [] <<s, a>> = <<1, 3>> -> <<50, 50, 50>>
      [] <<s, a>> = <<2, 1>> -> <<100, 150, 150>>
      [] <<s, a>> = <<2, 2>> -> <<100, 100, 100>>
      [] <<s, a>> = <<2, 3>> -> <<600, 600, 600>>
      [] <<s, a>> = <<3, 1>> -> <<700, 700, 700>>
      [] <<s, a>> = <<3, 2>> -> <<60, 70, 70>>
      [] <<s, a>> = <<3, 3>> -> <<70, 70, 60>>
      [] s = 4 -> <<40, 30, 30>>
      [] <<s, a>> = <<5, 1>> -> <<100, 100, 100>>
      [] <<s, a>> = <<5, 2>> -> <<600, 600, 500>>
      [] OTHER -> <<40, 40, 0>>

\* A stored column of n characters of words: two runs of words, with the
\* database's dirt before, between and after them; an empty column is empty.
StoredText(d, k, s, a, n) ==
    IF n = 0 THEN <<>>
    ELSE d.dirt \o << Piece(k, s, a, n - (n \div 2)) >> \o d.dirt
            \o << Piece(k, s, a, n \div 2) >> \o d.dirt

\* One row of _get_ayahs_in_surah's query, as the Ayah it becomes
\* (lines 168-177: the English column is passed on as it is stored)
AyahRow(d, s, a) ==
    [ surah_number |-> s, ayah_number |-> a,
      arabic_text |-> _clean_text(StoredText(d, "arabic", s, a, VerseWords(s, a)[1])),
      urdu_translation |-> _clean_text(StoredText(d, "urdu", s, a, VerseWords(s, a)[2])),
      english_translation |-> StoredText(d, "english", s, a, VerseWords(s, a)[3]),
      surah_name |-> s ]

\* IslamicDatabase.get_ayah
get_ayah(d, surah_number, ayah_number) ==
    IF <<surah_number, ayah_number>> \notin d.ayah
    THEN Raise("ValueError", "Ayah not found")
    ELSE Return(AyahRow(d, surah_number, ayah_number))

\* The positions of a bounded corpus
Grid == (1..MaxSurah) \X (1..MaxAyah)

\* SELECT ... WHERE SurahNumber = ? AND AyahNumber >= ? ORDER BY AyahNumber LIMIT ?
RECURSIVE AyahsFrom(_, _, _, _)
AyahsFrom(d, s, start, count) ==
    LET rows == {p \in d.ayah : p[1] = s /\ p[2] >= start} IN
    IF count = 0 \/ rows = {} THEN <<>>
    ELSE LET a == MinOf({p[2] : p \in rows})
         IN <<AyahRow(d, s, a)>> \o AyahsFrom(d, s, a + 1, count - 1)

\* A query whose LIMIT is one row too wide
GetAyahsInSurahOneMore(d, surah_number, start_ayah, count) ==
    AyahsFrom(d, surah_number, start_ayah, count + 1)

\* IslamicDatabase._get_ayahs_in_surah
_get_ayahs_in_surah(d, surah_number, start_ayah, count) ==
    AyahsFrom(d, surah_number, start_ayah, count)

\* IslamicDatabase._calculate_content_length
_calculate_content_length(ayah) ==
    TextLen(ayah.arabic_text) + TextLen(ayah.urdu_translation)
        + TextLen(ayah.english_translation)

MIN_CONTENT_LENGTH == 350
MAX_CONTENT_LENGTH == 2000
MAX_AYAHS_TO_COMBINE == 3

\* len(str(ayah.ayah_number))
RECURSIVE DecimalDigits(_)
DecimalDigits(n) == IF n < 10 THEN 1 ELSE 1 + DecimalDigits(n \div 10)

\* " ۞" appended to an Arabic part
Separator == << Space, Piece("glyph", 0, 0, 1) >>
\* " (<ayah_num>)" appended to a translation part
Marker(a) == << Space, Piece("number", 0, a, DecimalDigits(a) + 2) >>

\* " ".join(parts)
RECURSIVE Join(_)
Join(parts) ==
    IF parts = <<>> THEN <<>>
    ELSE IF Len(parts) = 1 THEN parts[1]
    ELSE parts[1] \o <<Space>> \o Join(Tail(parts))

\* An assembly that puts the separator glyph after the last verse as well
CombineAyahsGlyphAfterEach(ayahs) ==
    IF ayahs = <<>> THEN Raise("ValueError", "No ayahs to combine")
    ELSE Return([ surah_number |-> ayahs[1].surah_number,
                  start_ayah |-> ayahs[1].ayah_number,
                  end_ayah |-> ayahs[Len(ayahs)].ayah_number,
                  arabic_text |-> IF Len(ayahs) = 1 THEN ayahs[1].arabic_text
                      ELSE Join([i \in 1..Len(ayahs) |-> ayahs[i].arabic_text \o Separator]),
                  urdu_translation |-> IF Len(ayahs) = 1 THEN ayahs[1].urdu_translation
                      ELSE Join([i \in 1..Len(ayahs) |->
                              ayahs[i].urdu_translation \o Marker(ayahs[i].ayah_number)]),
                  english_translation |-> IF Len(ayahs) = 1 THEN ayahs[1].english_translation
                      ELSE Join([i \in 1..Len(ayahs) |->
                              ayahs[i].english_translation \o Marker(ayahs[i].ayah_number)]),
                  surah_name |-> ayahs[1].surah_name,
                  ayah_count |-> Len(ayahs) ])

\* IslamicDatabase._combine_ayahs
_combine_ayahs(ayahs) ==
    IF ayahs = <<>> THEN Raise("ValueError", "No ayahs to combine")
    ELSE LET first == ayahs[1]
             last == ayahs[Len(ayahs)]
         IN IF Len(ayahs) = 1
            THEN Return([ surah_number |-> first.surah_number,
                          start_ayah |-> first.ayah_number,
                          end_ayah |-> first.ayah_number,
                          arabic_text |-> first.arabic_text,
                          urdu_translation |-> first.urdu_translation,
                          english_translation |-> first.english_translation,
                          surah_name |-> first.surah_name,
                          ayah_count |-> 1 ])
            ELSE Return([ surah_number |-> first.surah_number,
                          start_ayah |-> first.ayah_number,
                          end_ayah |-> last.ayah_number,
                          arabic_text |-> Join([i \in 1..Len(ayahs) |->
                              IF i = Len(ayahs) THEN ayahs[i].arabic_text
                              ELSE ayahs[i].arabic_text \o Separator]),
                          urdu_translation |-> Join([i \in 1..Len(ayahs) |->
                              ayahs[i].urdu_translation \o Marker(ayahs[i].ayah_number)]),
                          english_translation |-> Join([i \in 1..Len(ayahs) |->
                              ayahs[i].english_translation \o Marker(ayahs[i].ayah_number)]),
                          surah_name |-> first.surah_name,
                          ayah_count |-> Len(ayahs) ])

\* A loop that does not look at the ayah numbers
RECURSIVE CombineLoopAcrossGaps(_, _, _, _)
CombineLoopAcrossGaps(ayahs, i, combined, current_length) ==
    IF i > Len(ayahs) THEN combined
    ELSE IF current_length >= MIN_CONTENT_LENGTH THEN combined
    ELSE LET next_length == _calculate_content_length(ayahs[i])
         IN IF current_length + next_length > MAX_CONTENT_LENGTH THEN combined
            ELSE CombineLoopAcrossGaps(ayahs, i + 1, Append(combined, ayahs[i]),
                                       current_length + next_length)

\* A loop that does not look at the maximum length
RECURSIVE CombineLoopNoMax(_, _, _, _)
CombineLoopNoMax(ayahs, i, combined, current_length) ==
    IF i > Len(ayahs) THEN combined
    ELSE IF current_length >= MIN_CONTENT_LENGTH THEN combined
    ELSE IF ayahs[i].ayah_number # combined[Len(combined)].ayah_number + 1 THEN combined
    ELSE CombineLoopNoMax(ayahs, i + 1, Append(combined, ayahs[i]),
                          current_length + _calculate_content_length(ayahs[i]))

\* A loop that does not look at the minimum length
RECURSIVE CombineLoopNoMin(_, _, _, _)
CombineLoopNoMin(ayahs, i, combined, current_length) ==
    IF i > Len(ayahs) THEN combined
    ELSE IF ayahs[i].ayah_number # combined[Len(combined)].ayah_number + 1 THEN combined
    ELSE LET next_length == _calculate_content_length(ayahs[i])
         IN IF current_length + next_length > MAX_CONTENT_LENGTH THEN combined
            ELSE CombineLoopNoMin(ayahs, i + 1, Append(combined, ayahs[i]),
                                  current_length + next_length)

\* A loop that refuses a verse that brings the length to the maximum exactly
RECURSIVE CombineLoopBelowMax(_, _, _, _)
CombineLoopBelowMax(ayahs, i, combined, current_length) ==
    IF i > Len(ayahs) THEN combined
    ELSE IF current_length >= MIN_CONTENT_LENGTH THEN combined
    ELSE IF ayahs[i].ayah_number # combined[Len(combined)].ayah_number + 1 THEN combined
    ELSE LET next_length == _calculate_content_length(ayahs[i])
         IN IF current_length + next_length >= MAX_CONTENT_LENGTH THEN combined
            ELSE CombineLoopBelowMax(ayahs, i + 1, Append(combined, ayahs[i]),
                                     current_length + next_length)

\* The loop of _get_combined_ayahs over ayahs[i..], with the verses combined so far
RECURSIVE CombineLoop(_, _, _, _)
CombineLoop(ayahs, i, combined, current_length) ==
    IF i > Len(ayahs) THEN combined
    ELSE IF current_length >= MIN_CONTENT_LENGTH THEN combined
    ELSE IF ayahs[i].ayah_number # combined[Len(combined)].ayah_number + 1 THEN combined
    ELSE LET next_length == _calculate_content_length(ayahs[i])
         IN IF current_length + next_length > MAX_CONTENT_LENGTH THEN combined
            ELSE CombineLoop(ayahs, i + 1, Append(combined, ayahs[i]),
                             current_length + next_length)

\* The list `combined` of _get_combined_ayahs when its loop ends (line 276),
\* for the rows fetched; no list when no row is fetched
CombinedOf(ayahs) ==
    IF ayahs = <<>> THEN <<>>
    ELSE CombineLoop(ayahs, 2, <<ayahs[1]>>, _calculate_content_length(ayahs[1]))

Combined(d, surah_number, ayah_number) ==
    Applied(CombinedOf,
            _get_ayahs_in_surah(d, surah_number, ayah_number, MAX_AYAHS_TO_COMBINE))

\* _get_combined_ayahs from line 253 on, with the rows fetched
CombineRows(ayahs) ==
    IF ayahs = <<>> THEN Raise("ValueError", "No ayahs found")
    ELSE Applied(_combine_ayahs, CombinedOf(ayahs))

\* IslamicDatabase._get_combined_ayahs
_get_combined_ayahs(d, surah_number, ayah_number) ==
    Applied(CombineRows,
            _get_ayahs_in_surah(d, surah_number, ayah_number, MAX_AYAHS_TO_COMBINE))

\* A successor that stays where it is after the last stored position
NextPositionNoWrap(d, current_surah, current_ayah) ==
    LET same == {p \in d.ayah : p[1] = current_surah /\ p[2] > current_ayah}
        later == {p \in d.ayah : p[1] > current_surah}
    IN  IF same # {} THEN <<current_surah, MinOf({p[2] : p \in same})>>
        ELSE IF later # {}
            THEN LET n == MinOf({p[1] : p \in later})
                 IN <<n, MinOf({p[2] : p \in {q \in later : q[1] = n}})>>
        ELSE <<current_surah, current_ayah>>

\* A successor that always leaves the current surah
NextPositionFirstOfSurah(d, current_surah, current_ayah) ==
    LET later == {p \in d.ayah : p[1] > current_surah}
    IN  IF later # {}
            THEN LET n == MinOf({p[1] : p \in later})
                 IN <<n, MinOf({p[2] : p \in {q \in later : q[1] = n}})>>
        ELSE <<1, 1>>

\* The position IslamicDatabase.get_next_ayah hands to _get_combined_ayahs:
\* the two SELECTs of lines 298-319 and the wrap of line 323.
NextPosition(d, current_surah, current_ayah) ==
    LET same == {p \in d.ayah : p[1] = current_surah /\ p[2] > current_ayah}
        later == {p \in d.ayah : p[1] > current_surah}
    IN  IF same # {} THEN <<current_surah, MinOf({p[2] : p \in same})>>
        ELSE IF later # {}
            THEN LET n == MinOf({p[1] : p \in later})
                 IN <<n, MinOf({p[2] : p \in {q \in later : q[1] = n}})>>
        ELSE <<1, 1>>

\* IslamicDatabase.get_next_ayah.  db_error: the connection raises
\* sqlite3.Error on cursor.execute (a missing or locked database file).
get_next_ayah(d, current_surah, current_ayah, db_error) ==
    IF db_error THEN Raise("sqlite3.Error", "execute failed")
    ELSE LET p == NextPosition(d, current_surah, current_ayah)
         IN _get_combined_ayahs(d, p[1], p[2])

\* IslamicDatabase.get_total_ayahs
get_total_ayahs(d) == Cardinality(d.ayah)

----------------------------------------------------------------------------
(* Hadiths: the mishkaat table (database.py) and the resolver              *)
(* (hadith_provider.py).  A grade is a str: a sequence of characters,      *)
(* Latin letters as themselves and Arabic-script letters by name.          *)

HadithText(source, number) == << Piece(source, 0, number, 10) >>

\* A column of the mishkaat table as stored, with the database's dirt
\* before and after its words
StoredHadith(d, source, number) == d.dirt \o HadithText(source, number) \o d.dirt

\* IslamicDatabase._generate_hadith_english: the two hard-coded translations
_generate_hadith_english(hadith_number) ==
    IF hadith_number \in {4629, 4631}
    THEN HadithText("manual.English", hadith_number) ELSE <<>>

\* A lookup that answers an absent number with an empty record
DbGetHadithOrEmpty(d, hadith_number) ==
    Return([ hadith_number |-> hadith_number,
             arabic_text |-> IF hadith_number \in d.mishkaat
                             THEN _clean_text(StoredHadith(d, "mishkaat.Arabic", hadith_number))
                             ELSE <<>>,
             urdu_translation |-> IF hadith_number \in d.mishkaat
                                  THEN _clean_text(StoredHadith(d, "mishkaat.Urdu", hadith_number))
                                  ELSE <<>>,
             english_translation |-> _generate_hadith_english(hadith_number),
             grade |-> <<>>, graded_by |-> <<>> ])

\* IslamicDatabase.get_hadith
DbGetHadith(d, hadith_number) ==
    IF hadith_number \notin d.mishkaat
    THEN Raise("ValueError", "Hadith not found")
    ELSE Return([ hadith_number |-> hadith_number,
                  arabic_text |-> _clean_text(StoredHadith(d, "mishkaat.Arabic", hadith_number)),
                  urdu_translation |-> _clean_text(StoredHadith(d, "mishkaat.Urdu", hadith_number)),
                  english_translation |-> _generate_hadith_english(hadith_number),
                  grade |-> <<>>, graded_by |-> <<>> ])

\* A successor that fails after the last stored number
DbGetNextHadithNoWrap(d, current_hadith_number) ==
    LET later == {n \in d.mishkaat : n > current_hadith_number}
    IN  IF later # {} THEN DbGetHadith(d, MinOf(later))
        ELSE Raise("ValueError", "Hadith not found")

\* IslamicDatabase.get_next_hadith; on an empty table MIN() is NULL and
\* get_hadith(None) finds no row.
DbGetNextHadith(d, current_hadith_number) ==
    LET later == {n \in d.mishkaat : n > current_hadith_number}
    IN  IF later # {} THEN DbGetHadith(d, MinOf(later))
        ELSE IF d.mishkaat # {} THEN DbGetHadith(d, MinOf(d.mishkaat))
        ELSE Raise("ValueError", "Hadith not found")

\* str.lower() on the letters a grade is written with
UpperCase == <<"A","B","C","D","E","F","G","H","I","J","K","L","M",
               "N","O","P","Q","R","S","T","U","V","W","X","Y","Z">>
LowerCase == <<"a","b","c","d","e","f","g","h","i","j","k","l","m",
               "n","o","p","q","r","s","t","u","v","w","x","y","z">>
LowerChar(c) ==
    IF \E i \in 1..Len(UpperCase) : UpperCase[i] = c
    THEN LowerCase[CHOOSE i \in 1..Len(UpperCase) : UpperCase[i] = c]
    ELSE c
\* A lower() that leaves every letter as it is
LowerKeepingCase(str) == str
Lower(str) == [i \in 1..Len(str) |-> LowerChar(str[i])]

\* indicator in grade_lower
Contains(str, sub) ==
    \E i \in 0..(Len(str) - Len(sub)) : SubSeq(str, i + 1, i + Len(sub)) = sub

\* weak_indicators of HadithProvider._is_weak_hadith
weak_indicators ==
    << <<"dad", "ain", "farsi_yeh", "feh">>,
       <<"dad", "ain", "yeh", "feh">>,
       <<"z", "a", "e", "e", "f">>,
       <<"d", "a", "'", "i", "f">>,
       <<"d", "a", "i", "f">>,
       <<"w", "e", "a", "k">>,
       <<"meem", "waw", "dad", "waw", "ain">>,
       <<"m", "a", "w", "d", "u">> >>

\* HadithProvider._is_weak_hadith
_is_weak_hadith(hadith) ==
    IF hadith.grade = <<>> THEN FALSE
    ELSE LET grade_lower == Lower(hadith.grade)
         IN \E k \in 1..Len(weak_indicators) : Contains(grade_lower, weak_indicators[k])

NoProvider == [absent |-> TRUE]

\* HadithProviderConfig.from_config_file, on the hadith_source section
\* [mode, enabled, fallback_to_local, ai_enabled] of config.json
from_config_file(c) ==
    [ mode |-> IF c.mode = "online" /\ ~c.enabled THEN "local" ELSE c.mode,
      online_enabled |-> c.enabled,
      fallback_to_local |-> c.fallback_to_local,
      use_ai_translation |-> c.ai_enabled ]

\* HadithProvider.__init__.  init tells which constructors succeed (scraper,
\* alhadees, translator) and whether a database is passed in (db), as main()
\* does; without one __init__ opens the local database when the mode is
\* local or the fallback is on.
HadithProviderInit(config, init) ==
    LET online1 == config.mode = "online" /\ config.online_enabled
        mode2 == IF online1 /\ ~init.scraper /\ config.fallback_to_local
                 THEN "local" ELSE config.mode
        online2 == mode2 = "online" /\ config.online_enabled
    IN  IF online1 /\ ~init.scraper /\ ~config.fallback_to_local
        THEN Raise("ImportError", "scraper")
        ELSE Return([ mode |-> mode2,
                      fallback_to_local |-> config.fallback_to_local,
                      scraper |-> online1 /\ init.scraper,
                      alhadees_scraper |-> online2 /\ init.alhadees,
                      translation_generator |-> config.use_ai_translation /\ init.translator,
                      db |-> init.db \/ mode2 = "local" \/ config.fallback_to_local ])

\* A resolution: what get_hadith answers, and the sources it called, in order
Resolved(res, calls) == [res |-> res, calls |-> calls]

\* HadithProvider._convert_scraped_to_hadith
_convert_scraped_to_hadith(p, d, scraped) ==
    LET local == DbGetHadith(d, scraped.hadith_number)
    IN [ hadith_number |-> scraped.hadith_number,
         arabic_text |-> scraped.arabic_text,
         urdu_translation |-> IF p.db /\ local.ok THEN local.val.urdu_translation ELSE <<>>,
         english_translation |-> scraped.english_translation,
         grade |-> scraped.grade, graded_by |-> scraped.graded_by ]

\* A conversion that does not look the translation up in the local store
ConvertAlHadeesWithoutLocal(p, d, env, scraped) ==
    LET temp_hadith == [ hadith_number |-> scraped.hadith_number,
                         arabic_text |-> scraped.arabic_text,
                         urdu_translation |-> scraped.urdu_translation,
                         english_translation |-> <<>>,
                         grade |-> scraped.grade, graded_by |-> scraped.graded_by ]
        ask == p.translation_generator /\ ~_is_weak_hadith(temp_hadith)
    IN [ hadith |-> [temp_hadith EXCEPT !.english_translation =
                                           IF ask /\ env.ai.ok THEN env.ai.val ELSE <<>>],
         asked |-> ask ]

\* A conversion that asks the translator without looking at the grade
ConvertAlHadeesTranslatingWeak(p, d, env, scraped) ==
    LET local == DbGetHadith(d, scraped.hadith_number)
        english1 == IF p.db /\ local.ok /\ local.val.english_translation # <<>>
                    THEN local.val.english_translation ELSE <<>>
        ask == english1 = <<>> /\ p.translation_generator
    IN [ hadith |-> [ hadith_number |-> scraped.hadith_number,
                      arabic_text |-> scraped.arabic_text,
                      urdu_translation |-> scraped.urdu_translation,
                      english_translation |-> IF ask /\ env.ai.ok THEN env.ai.val
                                              ELSE english1,
                      grade |-> scraped.grade, graded_by |-> scraped.graded_by ],
         asked |-> ask ]

\* HadithProvider._convert_alhadees_to_hadith: the record, and whether the
\* translator was called.  env.ai is what the translator answers.
_convert_alhadees_to_hadith(p, d, env, scraped) ==
    LET local == DbGetHadith(d, scraped.hadith_number)
        english1 == IF p.db /\ local.ok /\ local.val.english_translation # <<>>
                    THEN local.val.english_translation ELSE <<>>
        temp_hadith == [ hadith_number |-> scraped.hadith_number,
                         arabic_text |-> scraped.arabic_text,
                         urdu_translation |-> scraped.urdu_translation,
                         english_translation |-> english1,
                         grade |-> scraped.grade, graded_by |-> scraped.graded_by ]
        ask == english1 = <<>> /\ p.translation_generator /\ ~_is_weak_hadith(temp_hadith)
        english2 == IF ask /\ env.ai.ok THEN env.ai.val ELSE english1
    IN [ hadith |-> [temp_hadith EXCEPT !.english_translation = english2],
         asked |-> ask ]

\* A resolver that falls back to the local store whether or not the
\* fallback is enabled
GetHadithAlwaysFallingBack(p, d, env, hadith_number) ==
    LET local == DbGetHadith(d, hadith_number)
        scraped == env.sunnah[hadith_number]
        second == env.alhadees[hadith_number]
        tried == IF p.alhadees_scraper THEN <<"sunnah", "alhadees">> ELSE <<"sunnah">>
    IN  IF p.mode = "online" /\ p.scraper
        THEN IF scraped.ok
             THEN [ res |-> Return(_convert_scraped_to_hadith(p, d, scraped.val)),
                    calls |-> <<"sunnah">> ]
             ELSE IF p.alhadees_scraper /\ second.ok
             THEN [ res |-> Return(_convert_alhadees_to_hadith(p, d, env, second.val).hadith),
                    calls |-> tried ]
             ELSE [ res |-> local, calls |-> tried \o <<"local">> ]
        ELSE [ res |-> local, calls |-> <<"local">> ]

\* A resolver that takes the local record, when there is one, before asking
\* al-hadees.com
GetHadithLocalBeforeSecondary(p, d, env, hadith_number) ==
    LET local == DbGetHadith(d, hadith_number)
        scraped == env.sunnah[hadith_number]
        second == env.alhadees[hadith_number]
    IN  IF p.mode = "online" /\ p.scraper
        THEN IF scraped.ok
             THEN Resolved(Return(_convert_scraped_to_hadith(p, d, scraped.val)), <<"sunnah">>)
             ELSE IF p.fallback_to_local /\ p.db /\ local.ok
             THEN Resolved(local, <<"sunnah", "local">>)
             ELSE IF p.alhadees_scraper /\ second.ok
             THEN Resolved(Return(_convert_alhadees_to_hadith(p, d, env, second.val).hadith),
                           <<"sunnah", "local", "alhadees">>)
             ELSE Resolved(Raise("ValueError",
                                 "Failed to fetch hadith from all online sources"),
                           <<"sunnah", "local", "alhadees">>)
        ELSE IF p.db THEN Resolved(local, <<"local">>)
        ELSE Resolved(Raise("ValueError", "No hadith source available"), <<>>)

\* A resolver that lets the translator's and the fill lookup's failures out
GetHadithFailingOnFill(p, d, env, hadith_number) ==
    LET local == DbGetHadith(d, hadith_number)
        scraped == env.sunnah[hadith_number]
        second == env.alhadees[hadith_number]
        conv == _convert_alhadees_to_hadith(p, d, env, second.val)
        tried == IF p.alhadees_scraper THEN <<"sunnah", "alhadees">> ELSE <<"sunnah">>
    IN  IF p.mode = "online" /\ p.scraper
        THEN IF scraped.ok
             THEN IF p.db /\ ~local.ok
                  THEN Resolved(local, <<"sunnah">>)
                  ELSE Resolved(Return(_convert_scraped_to_hadith(p, d, scraped.val)),
                                <<"sunnah">>)
             ELSE IF p.alhadees_scraper /\ second.ok
             THEN IF conv.asked /\ ~env.ai.ok
                  THEN Resolved(env.ai, tried \o <<"ai">>)
                  ELSE Resolved(Return(conv.hadith),
                                tried \o (IF conv.asked THEN <<"ai">> ELSE <<>>))
             ELSE IF p.fallback_to_local /\ p.db
             THEN Resolved(local, tried \o <<"local">>)
             ELSE Resolved(Raise("ValueError",
                                 "Failed to fetch hadith from all online sources"),
                           tried)
        ELSE IF p.db THEN Resolved(local, <<"local">>)
        ELSE Resolved(Raise("ValueError", "No hadith source available"), <<>>)

\* A resolver that asks sunnah.com first in every mode
GetHadithIgnoringMode(p, d, env, hadith_number) ==
    LET local == DbGetHadith(d, hadith_number)
        scraped == env.sunnah[hadith_number]
    IN  IF scraped.ok
        THEN [ res |-> Return(_convert_scraped_to_hadith(p, d, scraped.val)),
               calls |-> <<"sunnah">> ]
        ELSE [ res |-> local, calls |-> <<"sunnah", "local">> ]

\* HadithProvider.get_hadith.  env.sunnah[n] and env.alhadees[n] are what
\* the two scrapers answer for number n: a scraped record or an exception.
get_hadith(p, d, env, hadith_number) ==
    LET local == Resolved(DbGetHadith(d, hadith_number), <<"local">>)
    IN
    IF p.mode = "online" /\ p.scraper
    THEN LET scraped == env.sunnah[hadith_number] IN
         IF scraped.ok
         THEN Resolved(Return(_convert_scraped_to_hadith(p, d, scraped.val)), <<"sunnah">>)
         ELSE LET second == env.alhadees[hadith_number]
                  conv == _convert_alhadees_to_hadith(p, d, env, second.val)
                  tried == IF p.alhadees_scraper THEN <<"sunnah", "alhadees">>
                           ELSE <<"sunnah">>
              IN IF p.alhadees_scraper /\ second.ok
                 THEN Resolved(Return(conv.hadith),
                               tried \o (IF conv.asked THEN <<"ai">> ELSE <<>>))
                 ELSE IF p.fallback_to_local /\ p.db
                      THEN Resolved(local.res, tried \o <<"local">>)
                      ELSE Resolved(Raise("ValueError",
                                          "Failed to fetch hadith from all online sources"),
                                    tried)
    ELSE IF p.db THEN local
    ELSE Resolved(Raise("ValueError", "No hadith source available"), <<>>)

DEFAULT_MAX_ATTEMPTS == 10

\* A loop that answers the first record that resolves, weak or not
NextHadithLoopAnyGrade(p, d, env, next_number, attempts, max_attempts, tried, calls) ==
    IF attempts >= max_attempts
    THEN [ res |-> Raise("ValueError", "Could not find non-weak hadith"),
           tried |-> tried, calls |-> calls ]
    ELSE CHOOSE out \in {
           IF ~meta.ok THEN [res |-> meta, tried |-> tried, calls |-> calls]
           ELSE CHOOSE found \in {
                    [ res |-> r.res, tried |-> Append(tried, meta.val.hadith_number),
                      calls |-> Append(calls, r) ]
                  : r \in {get_hadith(p, d, env, meta.val.hadith_number)} } : TRUE
         : meta \in {DbGetNextHadith(d, next_number)} } : TRUE

\* A loop that stops one attempt late
RECURSIVE NextHadithLoopOneMore(_, _, _, _, _, _, _, _)
NextHadithLoopOneMore(p, d, env, next_number, attempts, max_attempts, tried, calls) ==
    IF attempts > max_attempts
    THEN [ res |-> Raise("ValueError", "Could not find non-weak hadith"),
           tried |-> tried, calls |-> calls ]
    ELSE CHOOSE out \in {
           IF ~meta.ok THEN [res |-> meta, tried |-> tried, calls |-> calls]
           ELSE LET n == meta.val.hadith_number IN
                CHOOSE found \in {
                    IF ~r.res.ok \/ ~_is_weak_hadith(r.res.val)
                    THEN [ res |-> r.res, tried |-> Append(tried, n),
                           calls |-> Append(calls, r) ]
                    ELSE NextHadithLoopOneMore(p, d, env, n, attempts + 1, max_attempts,
                                               Append(tried, n), Append(calls, r))
                  : r \in {get_hadith(p, d, env, n)} } : TRUE
         : meta \in {DbGetNextHadith(d, next_number)} } : TRUE

\* A loop that goes on to the next number when one cannot be resolved
RECURSIVE NextHadithLoopSkippingFailures(_, _, _, _, _, _, _, _)
NextHadithLoopSkippingFailures(p, d, env, next_number, attempts, max_attempts, tried, calls) ==
    IF attempts >= max_attempts
    THEN [ res |-> Raise("ValueError", "Could not find non-weak hadith"),
           tried |-> tried, calls |-> calls ]
    ELSE CHOOSE out \in {
           IF ~meta.ok THEN [res |-> meta, tried |-> tried, calls |-> calls]
           ELSE LET n == meta.val.hadith_number IN
                CHOOSE found \in {
                    IF r.res.ok /\ ~_is_weak_hadith(r.res.val)
                    THEN [ res |-> r.res, tried |-> Append(tried, n),
                           calls |-> Append(calls, r) ]
                    ELSE NextHadithLoopSkippingFailures(p, d, env, n, attempts + 1,
                             max_attempts, Append(tried, n), Append(calls, r))
                  : r \in {get_hadith(p, d, env, n)} } : TRUE
         : meta \in {DbGetNextHadith(d, next_number)} } : TRUE

\* The while loop of get_next_hadith: the answer, the numbers resolved and
\* what each resolution called and answered
RECURSIVE NextHadithLoop(_, _, _, _, _, _, _, _)
NextHadithLoop(p, d, env, next_number, attempts, max_attempts, tried, calls) ==
    IF attempts >= max_attempts
    THEN [ res |-> Raise("ValueError", "Could not find non-weak hadith"),
           tried |-> tried, calls |-> calls ]
    ELSE CHOOSE out \in {
           IF ~meta.ok THEN [res |-> meta, tried |-> tried, calls |-> calls]
           ELSE LET n == meta.val.hadith_number IN
                CHOOSE found \in {
                    IF ~r.res.ok \/ ~_is_weak_hadith(r.res.val)
                    THEN [ res |-> r.res, tried |-> Append(tried, n),
                           calls |-> Append(calls, r) ]
                    ELSE NextHadithLoop(p, d, env, n, attempts + 1, max_attempts,
                                        Append(tried, n), Append(calls, r))
                  : r \in {get_hadith(p, d, env, n)} } : TRUE
         : meta \in {DbGetNextHadith(d, next_number)} } : TRUE

\* As get_next_hadith, but without the check that a local store is attached
GetNextHadithWithoutStoreCheck(p, d, env, current_hadith_number, max_attempts) ==
    NextHadithLoop(p, d, env, current_hadith_number, 0, max_attempts, <<>>, <<>>)

\* HadithProvider.get_next_hadith
get_next_hadith(p, d, env, current_hadith_number, max_attempts) ==
    IF ~p.db
    THEN [ res |-> Raise("ValueError", "Local database required"), tried |-> <<>>,
           calls |-> <<>> ]
    ELSE NextHadithLoop(p, d, env, current_hadith_number, 0, max_attempts, <<>>, <<>>)

----------------------------------------------------------------------------
(* One generation: generate_for_date (main.py) *)

\* The parameters of IslamicImageGenerator.generate_ayat_image and
\* generate_hadith_image, and those of them that have no default
AyatImageParams ==
    { "surah_number", "ayah_number", "arabic_text", "urdu_translation",
      "english_translation", "surah_name", "date" }
AyatImageRequired == AyatImageParams
HadithImageParams ==
    { "hadith_number", "arabic_text", "urdu_translation", "english_translation",
      "date", "grade", "graded_by" }
HadithImageRequired == HadithImageParams \ {"grade", "graded_by"}

\* The keyword arguments generate_for_date passes to each
AyatImageKwargs ==
    { "surah_number", "ayah_number", "arabic_text", "urdu_translation",
      "english_translation", "surah_name", "date", "ayah_reference" }
HadithImageKwargs ==
    { "hadith_number", "arabic_text", "urdu_translation", "english_translation",
      "date", "grade", "graded_by" }

\* Python binds a call made with keyword arguments only, or raises TypeError
CallBinds(kwargs, params, required) == kwargs \subseteq params /\ required \subseteq kwargs

NoUnit == [surah_number |-> 0, start_ayah |-> 0, end_ayah |-> 0, ayah_count |-> 0]
UnitRange(u) ==
    [ surah_number |-> u.surah_number, start_ayah |-> u.start_ayah,
      end_ayah |-> u.end_ayah, ayah_count |-> u.ayah_count ]

\* What one call of generate_for_date did: its result ("True", "False" or
\* "raised"), the stage it ended in, the StateManager's state afterwards and
\* whether _save_state ran, the content fetched, the images saved and
\* whether content_review.txt is left in the date's folder.
Outcome(result, stage, error, st, saved_state, unit, hadith, tried, images, review) ==
    [ result |-> result, stage |-> stage, error |-> error, state |-> st,
      saved_state |-> saved_state, unit |-> unit, hadith |-> hadith,
      tried |-> tried, images |-> images, review |-> review ]

\* review: "skip" (--skip-review), else what wait_for_user_input answers,
\* "enter" or "esc".  render: "ok", or the image ("ayat", "hadith") whose
\* drawing or saving raises.
generate_for_date(st, p, d, target_date, review, db_error, env, render) ==
    IF ~should_generate_for_date(st, target_date)
    THEN Outcome("False", "skipped", "", st, FALSE, NoUnit, 0, <<>>, {}, FALSE)
    ELSE CHOOSE fetched \in {
    IF ~ayah.ok
    THEN Outcome("raised", "ayah", ayah.kind, st, FALSE, NoUnit, 0, <<>>, {}, FALSE)
    ELSE CHOOSE resolved \in {
    IF ~next.res.ok
    THEN Outcome("raised", "hadith", next.res.kind, st, FALSE, unit, 0, next.tried, {}, FALSE)
    ELSE
    LET hadith == next.res.val.hadith_number
        review_file == review # "skip"
    IN
    IF review = "esc"
    THEN Outcome("False", "cancelled", "", st, FALSE, unit, hadith, next.tried, {}, FALSE)
    ELSE IF ~CallBinds(AyatImageKwargs, AyatImageParams, AyatImageRequired)
    THEN Outcome("raised", "render", "TypeError", st, FALSE, unit, hadith, next.tried,
                 {}, review_file)
    ELSE IF render = "ayat"
    THEN Outcome("raised", "render", "Exception", st, FALSE, unit, hadith, next.tried,
                 {}, review_file)
    ELSE IF ~CallBinds(HadithImageKwargs, HadithImageParams, HadithImageRequired)
    THEN Outcome("raised", "render", "TypeError", st, FALSE, unit, hadith, next.tried,
                 {"ayat"}, review_file)
    ELSE IF render = "hadith"
    THEN Outcome("raised", "render", "Exception", st, FALSE, unit, hadith, next.tried,
                 {"ayat"}, review_file)
    ELSE Outcome("True", "done", "",
                 update_after_generation(st, "both", Some(unit.surah_number),
                                         Some(unit.end_ayah), Some(hadith),
                                         target_date, target_date),
                 TRUE, unit, hadith, next.tried, {"ayat", "hadith"}, FALSE)
    : unit \in {UnitRange(ayah.val)},
      next \in {get_next_hadith(p, d, env, st.last_hadith, DEFAULT_MAX_ATTEMPTS)} } : TRUE
    : ayah \in {get_next_ayah(d, st.last_surah, st.last_ayah, db_error)} } : TRUE

----------------------------------------------------------------------------
(* The world a run meets: the databases, the two web sites, the network *)

\* The verse tables the process is run against (each holds 1:1): complete,
\* with gaps inside surahs, and with a surah missing.
FixtureGrid == (1..3) \X (1..3)
AyahTables ==
    { FixtureGrid,
      FixtureGrid \ {<<1, 2>>, <<2, 1>>},
      {q \in FixtureGrid : q[1] # 2} }
Mishkaat == {2, 3, 4629}
Databases == { [ayah |-> t, mishkaat |-> Mishkaat, dirt |-> <<>>] : t \in AyahTables }

Scraped(number, site, translation, grade, graded_by) ==
    IF site = "sunnah"
    THEN [ hadith_number |-> number,
           arabic_text |-> HadithText("sunnah.arabic", number),
           english_translation |-> translation,
           grade |-> grade, graded_by |-> graded_by ]
    ELSE [ hadith_number |-> number,
           arabic_text |-> HadithText("alhadees.arabic", number),
           urdu_translation |-> translation,
           grade |-> grade, graded_by |-> graded_by ]

\* What sunnah.com serves for a number
SunnahSite(n) ==
    CASE n = 2 -> Return(Scraped(n, "sunnah", HadithText("sunnah.english", n),
                                 <<"D", "a", "'", "i", "f">>, <<"(", "albani", ")">>))
      [] n = 3 -> Return(Scraped(n, "sunnah", HadithText("sunnah.english", n),
                                 <<"S", "a", "h", "i", "h">>, <<"(", "albani", ")">>))
      [] OTHER -> Raise("SunnahScraperError", "not found")

\* What al-hadees.com serves for a number
AlHadeesSite(n) ==
    CASE n = 2 -> Return(Scraped(n, "alhadees", HadithText("alhadees.urdu", n),
                                 <<"dad", "ain", "farsi_yeh", "feh">>, <<>>))
      [] n = 3 -> Return(Scraped(n, "alhadees", HadithText("alhadees.urdu", n),
                                 <<"Z", "a", "e", "e", "f">>, <<>>))
      [] OTHER -> Return(Scraped(n, "alhadees", HadithText("alhadees.urdu", n),
                                 <<"meem", "waw", "dad", "waw", "ain">>, <<>>))

\* The network during one run: "up", "sunnah_down" (requests to sunnah.com
\* time out) or "down" (both sites time out).  ai_ok: the translator answers.
Networks == {"up", "sunnah_down", "down"}
Env(net, ai_ok) ==
    [ sunnah |-> [n \in Mishkaat |->
                    IF net = "up" THEN SunnahSite(n)
                    ELSE Raise("SunnahScraperError", "timeout")],
      alhadees |-> [n \in Mishkaat |->
                    IF net # "down" THEN AlHadeesSite(n)
                    ELSE Raise("Exception", "timeout")],
      ai |-> IF ai_ok THEN Return(HadithText("ai.english", 0))
             ELSE Raise("Exception", "AI translation failed") ]

\* The hadith_source sections of config.json the process is started with
ConfigFiles ==
    { [mode |-> "local", enabled |-> FALSE, fallback_to_local |-> TRUE, ai_enabled |-> FALSE],
      [mode |-> "online", enabled |-> FALSE, fallback_to_local |-> TRUE, ai_enabled |-> FALSE],
      [mode |-> "online", enabled |-> TRUE, fallback_to_local |-> TRUE, ai_enabled |-> TRUE],
      [mode |-> "online", enabled |-> TRUE, fallback_to_local |-> FALSE, ai_enabled |-> FALSE] }
\* Which constructors of HadithProvider.__init__ succeed
Inits ==
    { [scraper |-> TRUE, alhadees |-> TRUE, translator |-> TRUE, db |-> TRUE],
      [scraper |-> FALSE, alhadees |-> TRUE, translator |-> TRUE, db |-> TRUE] }

----------------------------------------------------------------------------
(* History: what the last call did *)

NoState == [absent |-> TRUE]
NoCall == [op |-> "none", args |-> <<>>, res |-> <<>>, combined |-> <<>>]
NoThrottle == [absent |-> TRUE]
\* No run of main() to report
NoBatch ==
    [ op |-> "none", num_days |-> 0, today |-> <<>>, processed |-> <<>>,
      successful |-> 0, skipped |-> 0, cancelled |-> FALSE, ended |-> "none",
      remaining |-> 0, loaded |-> NoFile, state |-> NoState, file |-> NoFile ]
NoTranslator == [absent |-> TRUE]
NoLookup == [op |-> "none", args |-> <<>>, env |-> <<>>, res |-> <<>>, tried |-> <<>>,
             calls |-> <<>>]
NoWalk == [start |-> <<0, 0>>, prev |-> <<0, 0>>, cur |-> <<0, 0>>, steps |-> 0,
           visited |-> {}, ok |-> TRUE]
NoInputs == [review |-> "", db_error |-> FALSE, net |-> "", render |-> ""]

NoRun ==
    [ op |-> "none", target |-> None, args |-> <<>>, repeat |-> FALSE,
      result |-> "none", stage |-> "none", error |-> "",
      before |-> NoState, file_before |-> NoFile,
      unit |-> NoUnit, hadith |-> 0, tried |-> <<>>, images |-> {},
      review |-> FALSE, inputs |-> NoInputs, prev_unit |-> NoUnit ]

\* A run in which nothing outside generate_for_date failed or refused: the
\* date is due, both fetches answered, the user did not cancel and the
\* renderer and the disk work.
Healthy(r) ==
    /\ r.op = "generate"
    /\ r.stage \in {"render", "done"}
    /\ r.inputs.render = "ok"

\* The unit of the latest healthy run
LastHealthyUnit(r) == IF Healthy(r) THEN r.unit ELSE r.prev_unit

Called(op) ==
    [ NoRun EXCEPT !.op = op, !.before = state, !.file_before = file,
                   !.prev_unit = LastHealthyUnit(run) ]

----------------------------------------------------------------------------
(* The actions *)

\* main(), lines 489-501: StateManager(state_file) loads or creates the
\* state, then HadithProvider(config) is built; an exception there ends
\* the process.
Start(c, init) ==
    /\ ~up
    /\ LET loaded == LoadState(file)
           built == HadithProviderInit(from_config_file(c), init)
       IN /\ file' = loaded.file
          /\ up' = built.ok
          /\ state' = IF built.ok THEN loaded.state ELSE NoState
          /\ provider' = IF built.ok THEN built.val ELSE NoProvider
          /\ run' = [ Called("start") EXCEPT
                        !.result = IF built.ok THEN "none" ELSE "raised" ]
    /\ UNCHANGED <<db, walk, call, lookup, throttle, batch, translator>>

\* The process ends (main() returns, or an exception leaves it)
Exit ==
    /\ up
    /\ up' = FALSE
    /\ state' = NoState
    /\ provider' = NoProvider
    /\ run' = Called("exit")
    /\ UNCHANGED <<db, file, walk, call, lookup, throttle, batch, translator>>

\* What a call of generate_for_date leaves behind
ApplyGenerate(o, target_date, inputs) ==
    /\ state' = o.state
    /\ file' = IF o.saved_state THEN o.state ELSE file
    /\ run' = [ Called("generate") EXCEPT
                  !.target = target_date, !.result = o.result, !.stage = o.stage,
                  !.error = o.error, !.unit = o.unit, !.hadith = o.hadith,
                  !.tried = o.tried, !.images = o.images, !.review = o.review,
                  !.inputs = inputs ]
    /\ UNCHANGED <<db, up, provider, walk, call, lookup, throttle, batch, translator>>

\* As GenerateForDate, but the verse cursor is stored as soon as the verse
\* is fetched
GenerateForDateStoringVerseEarly(target_date, i) ==
    /\ up
    /\ \E o \in {generate_for_date(state, provider, db, target_date, i.review,
                                    i.db_error, Env(i.net, TRUE), i.render)} :
          ApplyGenerate(
            IF o.stage = "hadith"
            THEN [ o EXCEPT !.saved_state = TRUE,
                            !.state = update_after_generation(state, "ayat",
                                          Some(o.unit.surah_number), Some(o.unit.end_ayah),
                                          None, target_date, target_date) ]
            ELSE o,
            target_date, i)

\* As GenerateForDate, but the state is advanced before the user is asked
GenerateForDateAdvancingBeforeReview(target_date, i) ==
    /\ up
    /\ \E o \in {generate_for_date(state, provider, db, target_date, i.review,
                                    i.db_error, Env(i.net, TRUE), i.render)} :
          ApplyGenerate(
            IF o.stage = "cancelled"
            THEN [ o EXCEPT !.saved_state = TRUE,
                            !.state = update_after_generation(state, "both",
                                          Some(o.unit.surah_number), Some(o.unit.end_ayah),
                                          Some(o.hadith), target_date, target_date) ]
            ELSE o,
            target_date, i)

\* generate_for_date(target_date, ...), main.py
GenerateForDate(target_date, i) ==
    /\ up
    /\ \E o \in {generate_for_date(state, provider, db, target_date, i.review,
                                    i.db_error, Env(i.net, TRUE), i.render)} :
          ApplyGenerate(o, target_date, i)

\* A direct call of StateManager.update_after_generation
UpdateAfterGeneration(content_type, surah, ayah, hadith, target_date, today) ==
    /\ up
    /\ LET new == update_after_generation(state, content_type, surah, ayah, hadith,
                                          target_date, today)
           args == <<content_type, surah, ayah, hadith, target_date, today>>
       IN /\ state' = new
          /\ file' = new
          /\ run' = [ Called("update") EXCEPT
                        !.target = IF target_date = None THEN today ELSE target_date,
                        !.args = args,
                        !.repeat = (run.op = "update" /\ run.args = args),
                        !.prev_unit = NoUnit ]
    /\ UNCHANGED <<db, up, provider, walk, call, lookup, throttle, batch, translator>>

\* A direct call of StateManager.reset_state
ResetState ==
    /\ up
    /\ state' = reset_state
    /\ file' = reset_state
    /\ run' = [Called("reset") EXCEPT !.prev_unit = NoUnit]
    /\ UNCHANGED <<db, up, provider, walk, call, lookup, throttle, batch, translator>>

\* What a run meets: the review choice, whether the database raises, the
\* network, the renderer.  An input the run cannot get to read (after a
\* database error, after a cancel) is left at its first value.
Reviews == {"skip", "enter", "esc"}
Renders == {"ok", "ayat", "hadith"}
Inputs ==
    { i \in [review : Reviews, db_error : BOOLEAN, net : Networks, render : Renders] :
        /\ i.db_error => (i.review = "skip" /\ i.net = "up")
        /\ (i.db_error \/ i.review = "esc") => i.render = "ok" }

Init ==
    /\ db \in Databases
    /\ up = FALSE
    /\ state = NoState
    /\ file = NoFile
    /\ provider = NoProvider
    /\ run = NoRun
    /\ walk = NoWalk
    /\ call = NoCall
    /\ lookup = NoLookup
    /\ throttle = NoThrottle
    /\ batch = NoBatch
    /\ translator = NoTranslator

Next ==
    \/ \E c \in ConfigFiles, init \in Inits : Start(c, init)
    \/ Exit
    \/ \E t \in Dates, i \in Inputs : GenerateForDate(t, i)

Spec == Init /\ [][Next]_vars

----------------------------------------------------------------------------
(* SpecApi: the StateManager driven call by call, as a caller of its       *)
(* public methods may drive it, with generate_for_date among the callers.  *)

ApiConfig ==
    [mode |-> "local", enabled |-> FALSE, fallback_to_local |-> TRUE, ai_enabled |-> FALSE]
ApiInit == [scraper |-> TRUE, alhadees |-> TRUE, translator |-> TRUE, db |-> TRUE]
ApiInputs ==
    { i \in Inputs : ~i.db_error /\ i.net = "up" /\ i.render = "ok" /\ i.review # "enter" }

\* The arguments of a direct update_after_generation call: the date as a
\* date, as an ISO string, or left out (then today is read from the clock)
UpdateArgs ==
    { a \in [ content_type : {"ayat", "hadith", "both"},
              position : {<<None, None>>, <<Some(2), Some(2)>>},
              hadith : {None, Some(3)},
              target_date : {None} \cup Dates \cup {IsoFormat(<<2024, 1, 2>>)},
              today : Dates ] :
        a.target_date # None => a.today = SentinelDate }

InitApi ==
    /\ db = [ayah |-> FixtureGrid, mishkaat |-> Mishkaat, dirt |-> <<>>]
    /\ up = FALSE
    /\ state = NoState
    /\ file = NoFile
    /\ provider = NoProvider
    /\ run = NoRun
    /\ walk = NoWalk
    /\ call = NoCall
    /\ lookup = NoLookup
    /\ throttle = NoThrottle
    /\ batch = NoBatch
    /\ translator = NoTranslator

NextApi ==
    \/ Start(ApiConfig, ApiInit)
    \/ Exit
    \/ \E a \in UpdateArgs :
          UpdateAfterGeneration(a.content_type, a.position[1], a.position[2],
                                a.hadith, a.target_date, a.today)
    \/ ResetState
    \/ \E t \in Dates, i \in ApiInputs : GenerateForDate(t, i)

SpecApi == InitApi /\ [][NextApi]_vars

----------------------------------------------------------------------------
(* SpecSucc: the verse successor of get_next_ayah, iterated over every     *)
(* corpus of the grid that holds 1:1.                                      *)

Corpora == { c \in SUBSET Grid : <<1, 1>> \in c }

\* The cursors a walk starts from: the stored positions and the default cursor
WalkStarts(d) == d.ayah \cup {<<1, 0>>}

InitSucc ==
    /\ db \in { [ayah |-> c, mishkaat |-> Mishkaat, dirt |-> <<>>] : c \in Corpora }
    /\ up = FALSE
    /\ state = NoState
    /\ file = NoFile
    /\ provider = NoProvider
    /\ run = NoRun
    /\ walk = NoWalk
    /\ call = NoCall
    /\ lookup = NoLookup
    /\ throttle = NoThrottle
    /\ batch = NoBatch
    /\ translator = NoTranslator

WalkBegin(q) ==
    /\ walk = NoWalk
    /\ walk' = [NoWalk EXCEPT !.start = q, !.cur = q]
    /\ UNCHANGED <<db, up, state, file, provider, run, call, lookup, throttle, batch, translator>>

\* One more get_next_ayah, from the start of the unit the last one answered
WalkStep ==
    /\ walk # NoWalk
    /\ walk.ok
    /\ walk.steps < get_total_ayahs(db)
    /\ LET r == get_next_ayah(db, walk.cur[1], walk.cur[2], FALSE)
           q == IF r.ok THEN <<r.val.surah_number, r.val.start_ayah>> ELSE <<0, 0>>
       IN walk' = [ walk EXCEPT
                      !.prev = walk.cur,
                      !.cur = q,
                      !.steps = @ + 1,
                      !.visited = IF r.ok THEN @ \cup {q} ELSE @,
                      !.ok = r.ok ]
    /\ UNCHANGED <<db, up, state, file, provider, run, call, lookup, throttle, batch, translator>>

NextSucc ==
    \/ \E q \in WalkStarts(db) : WalkBegin(q)
    \/ WalkStep

SpecSucc == InitSucc /\ [][NextSucc]_vars

----------------------------------------------------------------------------
(* SpecStore: the methods of IslamicDatabase called one by one on          *)
(* databases whose tables have gaps and whose texts carry escape           *)
(* sequences and control characters.                                       *)

StoreGrid == (1..5) \X (1..4)
StoreTables ==
    { StoreGrid,
      StoreGrid \ {<<1, 2>>, <<4, 3>>, <<5, 1>>},
      {q \in StoreGrid : q[1] # 2 /\ q[2] <= 3},
      {<<1, 1>>} }
StoreMishkaats == {Mishkaat, {7}, {}}
\* What a stored text may carry around its words
Dirts ==
    { <<>>, <<Space, Space>>, <<Newline>>, <<CarriageReturn, Newline>>, <<Tab>>,
      <<Backslash, LetterN>>, <<Backslash, LetterR>>, <<Backslash, LetterT>>,
      <<Backslash>> }
\* The hadith numbers and the positions the calls ask for
AskedNumbers == {0, 1, 2, 3, 4, 7, 4629, 4630}
AskedPositions == StoreGrid \cup {<<1, 0>>, <<1, 5>>, <<6, 1>>}

InitStore ==
    /\ db \in [ayah : StoreTables, mishkaat : StoreMishkaats, dirt : Dirts]
    /\ up = FALSE
    /\ state = NoState
    /\ file = NoFile
    /\ provider = NoProvider
    /\ run = NoRun
    /\ walk = NoWalk
    /\ call = NoCall
    /\ lookup = NoLookup
    /\ throttle = NoThrottle
    /\ batch = NoBatch
    /\ translator = NoTranslator

StoreCall(op, args, res, combined) ==
    /\ call' = [op |-> op, args |-> args, res |-> res, combined |-> combined]
    /\ UNCHANGED <<db, up, state, file, provider, run, walk, lookup, throttle, batch, translator>>

GetHadith(hadith_number) ==
    StoreCall("get_hadith", <<hadith_number>>, DbGetHadith(db, hadith_number), <<>>)

GetNextHadith(current_hadith_number) ==
    StoreCall("get_next_hadith", <<current_hadith_number>>,
              DbGetNextHadith(db, current_hadith_number), <<>>)

GetAyah(surah_number, ayah_number) ==
    StoreCall("get_ayah", <<surah_number, ayah_number>>,
              get_ayah(db, surah_number, ayah_number), <<>>)

GetCombinedAyahs(surah_number, ayah_number) ==
    StoreCall("_get_combined_ayahs", <<surah_number, ayah_number>>,
              _get_combined_ayahs(db, surah_number, ayah_number),
              Combined(db, surah_number, ayah_number))

NextStore ==
    \/ \E n \in AskedNumbers : GetHadith(n)
    \/ \E n \in AskedNumbers : GetNextHadith(n)
    \/ \E q \in AskedPositions : GetAyah(q[1], q[2])
    \/ \E q \in AskedPositions : GetCombinedAyahs(q[1], q[2])

SpecStore == InitStore /\ [][NextStore]_vars

----------------------------------------------------------------------------
(* SpecProvider: the methods of HadithProvider called one by one, for every *)
(* provider __init__ can build, on hadith tables with and without the       *)
(* numbers asked for, against web sites that serve, serve a weak grade,     *)
(* serve no translation, or fail, number by number.                         *)

ProviderNumbers == {1, 2, 3, 4629}
ProviderTables == { {1, 2, 3}, {2, 3, 4629}, {4629}, {} }

\* HadithProviderConfig objects: those from_config_file makes of every
\* hadith_source section, and those built by calling the constructor
ProviderConfigs ==
    { from_config_file(c) :
        c \in [mode : {"local", "online"}, enabled : BOOLEAN,
               fallback_to_local : BOOLEAN, ai_enabled : BOOLEAN] }
    \cup [mode : {"local", "online"}, online_enabled : BOOLEAN,
          fallback_to_local : BOOLEAN, use_ai_translation : BOOLEAN]
ProviderInits == [scraper : BOOLEAN, alhadees : BOOLEAN, translator : BOOLEAN, db : BOOLEAN]
Providers ==
    { HadithProviderInit(c, i).val :
        <<c, i>> \in { ci \in ProviderConfigs \X ProviderInits :
                         HadithProviderInit(ci[1], ci[2]).ok } }

\* What the two sites do for one number.  primary: sunnah.com serves it;
\* primary_weak: with a weak grade; primary_no_english: without a translation
\* and without a grade; secondary: sunnah.com fails and al-hadees.com serves
\* it; secondary_weak: with a weak grade; offline: both fail.
Situations ==
    { "primary", "primary_weak", "primary_no_english", "secondary", "secondary_weak",
      "offline" }
LoopSituations == Situations \ {"primary_no_english"}

ProviderSunnah(n, s) ==
    CASE s = "primary" ->
            Return(Scraped(n, "sunnah", HadithText("sunnah.english", n),
                           <<"S", "a", "h", "i", "h">>, <<"(", "albani", ")">>))
      [] s = "primary_weak" ->
            Return(Scraped(n, "sunnah", HadithText("sunnah.english", n),
                           <<"D", "a", "'", "i", "f">>, <<"(", "albani", ")">>))
      [] s = "primary_no_english" -> Return(Scraped(n, "sunnah", <<>>, <<>>, <<>>))
      [] OTHER -> Raise("SunnahScraperError", "timeout")

ProviderAlHadees(n, s) ==
    CASE s = "offline" -> Raise("Exception", "timeout")
      [] s = "secondary_weak" ->
            Return(Scraped(n, "alhadees", HadithText("alhadees.urdu", n),
                           <<"dad", "ain", "farsi_yeh", "feh">>, <<>>))
      [] OTHER ->
            Return(Scraped(n, "alhadees", HadithText("alhadees.urdu", n),
                           <<"sad", "hah", "farsi_yeh", "hah">>,
                           <<"(", "muttafaq", ")">>))

\* The scrapers' and the translator's answers during one call, given the
\* situation of every number and whether the translator answers
World(e) ==
    [ sunnah |-> [n \in ProviderNumbers |-> ProviderSunnah(n, e.sit[n])],
      alhadees |-> [n \in ProviderNumbers |-> ProviderAlHadees(n, e.sit[n])],
      ai |-> IF e.ai THEN Return(HadithText("ai.english", 0))
             ELSE Raise("Exception", "AI translation failed") ]

\* The situations a call meets: chosen for the numbers it can resolve, offline
\* for the others
Envs(numbers, situations, ais) ==
    { [ sit |-> [n \in ProviderNumbers |-> IF n \in numbers THEN f[n] ELSE "offline"],
        ai |-> a ] :
        f \in [numbers -> situations], a \in ais }

AskedCurrents == {0, 1, 3, 4629}
AskedMaxAttempts == {0, 1, 2, 5, DEFAULT_MAX_ATTEMPTS}

\* The grades _is_weak_hadith is asked about: a word, alone or inside a
\* longer grade, written in lower case, capitalised or in upper case
UpperChar(c) ==
    IF \E i \in 1..Len(LowerCase) : LowerCase[i] = c
    THEN UpperCase[CHOOSE i \in 1..Len(LowerCase) : LowerCase[i] = c]
    ELSE c
Upper(str) == [i \in 1..Len(str) |-> UpperChar(str[i])]
Capitalized(str) == [i \in 1..Len(str) |-> IF i = 1 THEN UpperChar(str[i]) ELSE str[i]]
GradeWords ==
    { <<"d", "a", "'", "i", "f">>, <<"d", "a", "i", "f">>, <<"z", "a", "e", "e", "f">>,
      <<"w", "e", "a", "k">>, <<"m", "a", "w", "d", "u">>,
      <<"dad", "ain", "farsi_yeh", "feh">>, <<"dad", "ain", "yeh", "feh">>,
      <<"meem", "waw", "dad", "waw", "ain">>,
      <<>>, <<"s", "a", "h", "i", "h">>, <<"h", "a", "s", "a", "n">>,
      <<"sad", "hah", "farsi_yeh", "hah">>, <<"w", "e", "e", "k">>,
      <<"d", "a", " ", "i", "f">>, <<"m", "a", "w", "d">>,
      <<"dad", "ain", "feh">>, <<"waw", "dad", "waw", "ain">> }
GradeFronts == { <<>>, <<"i", "s", "n", "a", "d", " ">> }
GradeBacks == { <<>>, <<" ", "j", "i", "d", "d", "a", "n">> }
Grades ==
    { [word |-> w, grade |-> front \o form \o back] :
        <<w, form>> \in { wf \in GradeWords \X
                            UNION { {x, Upper(x), Capitalized(x)} : x \in GradeWords } :
                            wf[2] \in {wf[1], Upper(wf[1]), Capitalized(wf[1])} },
        front \in GradeFronts, back \in GradeBacks }

InitProvider ==
    /\ db \in [ayah : {FixtureGrid}, mishkaat : ProviderTables, dirt : {<<>>}]
    /\ up = FALSE
    /\ state = NoState
    /\ file = NoFile
    /\ provider \in Providers
    /\ run = NoRun
    /\ walk = NoWalk
    /\ call = NoCall
    /\ lookup = NoLookup
    /\ throttle = NoThrottle
    /\ batch = NoBatch
    /\ translator = NoTranslator

\* The provider keeps nothing from one call to the next: a call is made, its
\* answer is looked at, and the caller lets go of it before the next call
ProviderCall(op, args, env, out) ==
    /\ lookup' = [ op |-> op, args |-> args, env |-> env, res |-> out.res,
                   tried |-> out.tried, calls |-> out.calls ]
    /\ UNCHANGED <<db, up, state, file, provider, run, walk, call, throttle, batch, translator>>

\* A call of HadithProvider.get_hadith
ProviderGetHadith(hadith_number, env) ==
    /\ lookup = NoLookup
    /\ \E r \in {get_hadith(provider, db, World(env), hadith_number)} :
        ProviderCall("get_hadith", <<hadith_number>>, env,
                     [res |-> r.res, tried |-> <<hadith_number>>, calls |-> <<r>>])

\* A call of HadithProvider.get_next_hadith
ProviderGetNextHadith(current_hadith_number, max_attempts, env) ==
    /\ lookup = NoLookup
    /\ \E out \in {get_next_hadith(provider, db, World(env), current_hadith_number,
                                max_attempts)} :
        ProviderCall("get_next_hadith", <<current_hadith_number, max_attempts>>, env, out)

\* A call of HadithProvider._is_weak_hadith
IsWeakHadith(g) ==
    /\ lookup = NoLookup
    /\ ProviderCall("_is_weak_hadith", <<g>>, <<>>,
                 [ res |-> Return(_is_weak_hadith(
                              [ hadith_number |-> 1, arabic_text |-> <<>>,
                                urdu_translation |-> <<>>, english_translation |-> <<>>,
                                grade |-> g.grade, graded_by |-> <<>> ])),
                   tried |-> <<>>, calls |-> <<>> ])

\* The caller lets go of the answer
ProviderReturn ==
    /\ lookup # NoLookup
    /\ lookup' = NoLookup
    /\ UNCHANGED <<db, up, state, file, provider, run, walk, call, throttle, batch, translator>>

NextProvider ==
    \/ /\ lookup = NoLookup
       /\ \E n \in ProviderNumbers :
             \E e \in Envs({n}, Situations, BOOLEAN) : ProviderGetHadith(n, e)
    \/ /\ lookup = NoLookup
       /\ \E c \in AskedCurrents, m \in AskedMaxAttempts,
             e \in Envs(db.mishkaat, LoopSituations, {TRUE}) :
             ProviderGetNextHadith(c, m, e)
    \/ /\ lookup = NoLookup
       /\ \E g \in Grades : IsWeakHadith(g)
    \/ ProviderReturn

SpecProvider == InitProvider /\ [][NextProvider]_vars

----------------------------------------------------------------------------
(* The properties *)

\* The calendar date an ISO string names: its fields between the "-"
RECURSIVE ParseFields(_, _, _)
ParseFields(str, fields, value) ==
    IF str = <<>> THEN Append(fields, value)
    ELSE IF Head(str) = 45 THEN ParseFields(Tail(str), Append(fields, value), 0)
    ELSE ParseFields(Tail(str), fields, 10 * value + (Head(str) - 48))
ParseIso(str) == ParseFields(str, <<>>, 0)

\* The calendar order of two dates
DateLess(a, b) ==
    \/ a[1] < b[1]
    \/ a[1] = b[1] /\ a[2] < b[2]
    \/ a[1] = b[1] /\ a[2] = b[2] /\ a[3] < b[3]

DateOf(t) == IF Len(t) = 3 THEN t ELSE ParseIso(t)

\* The corpus order of two positions, and the stored position that follows
\* q in it, the first verse of the Quran after the last
PositionLess(a, b) == a[1] < b[1] \/ (a[1] = b[1] /\ a[2] < b[2])
FollowingPosition(table, q) ==
    LET later == {r \in table : PositionLess(q, r)}
    IN IF later = {} THEN <<1, 1>>
       ELSE CHOOSE r \in later : \A x \in later : x = r \/ PositionLess(r, x)

\* C1: over the runs in which nothing outside generate_for_date fails (the
\* date is due, verse and hadith are fetched, the user does not cancel, the
\* renderer and the disk work), the unit of each run starts at the stored
\* position that follows the last verse of the previous such run's unit.
C1_UnitFollowsPreviousUnit ==
    (Healthy(run) /\ run.prev_unit # NoUnit) =>
        <<run.unit.surah_number, run.unit.start_ayah>> =
            FollowingPosition(db.ayah, <<run.prev_unit.surah_number, run.prev_unit.end_ayah>>)

\* C2: a generate_for_date that fails fetching the verse or resolving the
\* hadith raises without reaching update_after_generation: the in-memory
\* and the persisted state are what they were, the date is still due, and
\* a process restarted on the file resumes from the same cursors.
C2_FetchFailureLeavesState ==
    (run.op = "generate" /\ run.stage \in {"ayah", "hadith"}) =>
        /\ run.result = "raised"
        /\ state = run.before
        /\ file = run.file_before
        /\ LoadState(file).state = run.before
        /\ should_generate_for_date(state, run.target)
        /\ run.images = {}

C2_Witness ==
    /\ run.op = "generate" /\ run.stage = "hadith"
    /\ Len(run.tried) > 1
    /\ run.unit # NoUnit

\* C3: a cancelled generate_for_date returns False, leaves the in-memory and
\* the persisted state untouched, saves no image and leaves no review file.
C3_CancelLeavesNothing ==
    (run.op = "generate" /\ run.stage = "cancelled") =>
        /\ run.result = "False"
        /\ state = run.before
        /\ file = run.file_before
        /\ run.images = {}
        /\ ~run.review

C3_Witness ==
    /\ run.op = "generate" /\ run.stage = "cancelled"
    /\ run.inputs.review = "esc"
    /\ run.unit # NoUnit /\ run.hadith # 0

\* C4: the persisted state changes in generate_for_date only when it ends in
\* update_after_generation, and it does end there: when the date is due,
\* verse and hadith are fetched, the user does not cancel and the renderer
\* and the disk work, the call returns True and the file holds the target
\* date, the unit's surah and end_ayah and the hadith's number.
C4_PendingToDone ==
    /\ (run.op = "generate" /\ file # run.file_before) => run.stage = "done"
    /\ Healthy(run) =>
        /\ run.result = "True"
        /\ file = [ last_date |-> IsoFormat(run.target), content_type |-> "both",
                    last_surah |-> run.unit.surah_number,
                    last_ayah |-> run.unit.end_ayah,
                    last_hadith |-> run.hadith ]

\* C5: after update_after_generation recorded the date D,
\* should_generate_for_date answers true exactly for the dates after D:
\* false for D, false for every earlier date, true for every later one,
\* whether the date is asked as a date or as its ISO string.
C5_ShouldGenerateIffLater ==
    run.op = "update" =>
        \A d \in Dates :
            /\ should_generate_for_date(state, d) <=> DateLess(DateOf(run.target), d)
            /\ should_generate_for_date(state, Pad4(d[1]) \o <<45>> \o Pad2(d[2])
                                                 \o <<45>> \o Pad2(d[3]))
                   <=> DateLess(DateOf(run.target), d)

C5_Witness ==
    /\ run.op = "update"
    /\ DateOf(run.target) = <<2024, 1, 2>>
    /\ should_generate_for_date(state, <<2024, 1, 10>>)
    /\ ~should_generate_for_date(state, <<2024, 1, 2>>)
    /\ ~should_generate_for_date(state, <<1999, 12, 31>>)

\* C6, as claimed: no generate_for_date and no update_after_generation call
\* leaves a last_date earlier than the one it found.
C6_NeverDecreases ==
    run.op \in {"generate", "update"} =>
        ~DateLess(ParseIso(state.last_date), ParseIso(run.before.last_date))

\* C6, amended: no generate_for_date call, and no update_after_generation
\* call made when should_generate_for_date answers true for its date (the
\* guard generate_for_date puts before it), leaves a last_date earlier than
\* the one it found.
C6_NeverDecreasesBehindGuard ==
    ( \/ run.op = "generate"
      \/ run.op = "update" /\ should_generate_for_date(run.before, run.target) ) =>
        ~DateLess(ParseIso(state.last_date), ParseIso(run.before.last_date))

C6_Witness ==
    /\ run.op = "update"
    /\ should_generate_for_date(run.before, run.target)
    /\ ParseIso(run.before.last_date) = <<2024, 1, 2>>
    /\ ParseIso(state.last_date) = <<2024, 1, 10>>

\* C7: a second update_after_generation with the arguments of the call just
\* before it leaves the in-memory state and the file as the first left them.
C7_UpdateIdempotent ==
    (run.op = "update" /\ run.repeat) =>
        /\ state = run.before
        /\ file = run.file_before

C7_Witness ==
    /\ run.op = "update" /\ run.repeat
    /\ run.args[1] = "both"
    /\ run.args[2] # None /\ run.args[4] # None
    /\ state.last_hadith = 3

\* C8: a StateManager built where no state file exists holds the sentinel
\* date and the cursor before the first verse and the first hadith, every
\* date after the sentinel is due, and a generation from that state fetches
\* a unit starting at 1:1 and resolves the smallest hadith number first.
C8_FirstUse ==
    /\ (run.op = "start" /\ run.file_before = NoFile) =>
        /\ file.last_date = <<50, 48, 48, 48, 45, 48, 49, 45, 48, 49>>
        /\ file.last_surah = 1 /\ file.last_ayah = 0 /\ file.last_hadith = 0
        /\ \A q \in db.ayah : PositionLess(<<file.last_surah, file.last_ayah>>, q)
        /\ \A n \in db.mishkaat : file.last_hadith < n
        /\ up => state = file
        /\ up => \A d \in Dates : DateLess(<<2000, 1, 1>>, d) =>
                                    should_generate_for_date(state, d)
    /\ (run.op = "generate"
            /\ run.before = [ last_date |-> <<50, 48, 48, 48, 45, 48, 49, 45, 48, 49>>,
                              content_type |-> "hadith", last_surah |-> 1,
                              last_ayah |-> 0, last_hadith |-> 0 ]) =>
        /\ run.unit # NoUnit =>
              (run.unit.surah_number = 1 /\ run.unit.start_ayah = 1)
        /\ run.tried # <<>> => run.tried[1] = MinOf(db.mishkaat)

C8_Witness ==
    /\ run.op = "generate"
    /\ run.file_before = DefaultState
    /\ run.unit.surah_number = 1 /\ run.unit.start_ayah = 1
    /\ run.tried # <<>> /\ run.tried[1] = 2
    /\ run.target = <<2024, 1, 2>>

\* C9: get_next_ayah answers the unit that starts at the stored position
\* following the cursor in corpus order (the next one of the surah, else
\* the first one of the next stored surah), and after the last position at
\* 1:1, without raising.
C9_Successor ==
    walk.steps > 0 =>
        /\ walk.ok
        /\ walk.cur = FollowingPosition(db.ayah, walk.prev)

C9_Witness ==
    /\ walk.steps > 0 /\ walk.ok
    /\ \A q \in db.ayah : ~PositionLess(walk.prev, q)
    /\ walk.prev # <<1, 1>>
    /\ walk.cur = <<1, 1>>

\* C10: from a stored position, get_total_ayahs() applications of the
\* successor visit every stored verse exactly once and end at the start.
C10_SingleCycle ==
    walk.start \in db.ayah =>
        /\ Cardinality(walk.visited) = walk.steps
        /\ walk.steps = Cardinality(db.ayah) =>
              (walk.ok /\ walk.cur = walk.start /\ walk.visited = db.ayah)

C10_Witness ==
    /\ walk.start \in db.ayah /\ walk.start # <<1, 1>>
    /\ Cardinality(db.ayah) >= 4
    /\ walk.steps = get_total_ayahs(db)
    /\ walk.cur = walk.start
    /\ \E q \in db.ayah : q[1] = 3

\* C11: IslamicDatabase.get_next_hadith(n) answers the hadith with the
\* smallest stored number greater than n, or, when there is none, the one
\* with the smallest stored number; on a non-empty table it does not fail.
C11_NextHadith ==
    call.op = "get_next_hadith" =>
        LET n == call.args[1]
            later == {m \in db.mishkaat : m > n}
            from == IF later # {} THEN later ELSE db.mishkaat
        IN db.mishkaat # {} =>
              /\ call.res.ok
              /\ call.res.val.hadith_number \in from
              /\ \A m \in from : call.res.val.hadith_number <= m

C11_Witness ==
    /\ call.op = "get_next_hadith"
    /\ call.args[1] = 4629
    /\ db.mishkaat = {2, 3, 4629}
    /\ call.res.ok /\ call.res.val.hadith_number = 2

\* C12: IslamicDatabase.get_hadith(number) raises its not-found ValueError
\* when the number is not stored, and a record it returns is the stored
\* one: it carries the number asked for and that hadith's texts.
C12_HadithNotFound ==
    call.op = "get_hadith" =>
        LET n == call.args[1]
        IN /\ n \notin db.mishkaat =>
                (~call.res.ok /\ call.res.kind = "ValueError"
                              /\ call.res.msg = "Hadith not found")
           /\ call.res.ok =>
                /\ n \in db.mishkaat
                /\ call.res.val.hadith_number = n
                /\ \E i \in 1..Len(call.res.val.arabic_text) :
                      call.res.val.arabic_text[i] = Piece("mishkaat.Arabic", 0, n, 10)

C12_Witness ==
    /\ call.op = "get_hadith"
    /\ call.args[1] = 4 /\ db.mishkaat = {2, 3, 4629}
    /\ ~call.res.ok

\* A text in which nothing is left to clean: no backslash, no control
\* character, no two spaces in a row and no space at either end
Normalized(text) ==
    /\ \A i \in 1..Len(text) : text[i] \notin {Backslash, Newline, CarriageReturn, Tab}
    /\ \A i \in 1..(Len(text) - 1) : ~(text[i] = Space /\ text[i + 1] = Space)
    /\ text # <<>> => (text[1] # Space /\ text[Len(text)] # Space)

\* C13: every text field the store returns (the original text and each
\* translation, of a verse and of a hadith) is normalized: escaped \n, \r,
\* \t, the control characters and stray backslashes have become single
\* spaces and the text is trimmed.
C13_TextNormalized ==
    /\ (call.op \in {"get_ayah", "get_hadith", "get_next_hadith"} /\ call.res.ok) =>
          /\ Normalized(call.res.val.arabic_text)
          /\ Normalized(call.res.val.urdu_translation)
          /\ Normalized(call.res.val.english_translation)
    /\ call.op = "_get_combined_ayahs" =>
          \A i \in 1..Len(call.combined) :
              /\ Normalized(call.combined[i].arabic_text)
              /\ Normalized(call.combined[i].urdu_translation)
              /\ Normalized(call.combined[i].english_translation)

\* The characters of the three texts of a verse or of a unit, and of the
\* first i verses of a list
FieldsLength(v) ==
    TextLen(v.arabic_text) + TextLen(v.urdu_translation) + TextLen(v.english_translation)
RECURSIVE VersesLength(_, _)
VersesLength(verses, i) ==
    IF i = 0 THEN 0 ELSE FieldsLength(verses[i]) + VersesLength(verses, i - 1)

\* A call of the combiner that produced a unit
Produced == call.op = "_get_combined_ayahs" /\ call.res.ok

\* C14: a unit the combiner produces has at least 1 and at most
\* MAX_AYAHS_TO_COMBINE verses.
C14_CountBounded ==
    Produced =>
        /\ call.res.val.ayah_count >= 1
        /\ call.res.val.ayah_count <= 3
        /\ call.res.val.ayah_count = Len(call.combined)

C14_Witness ==
    /\ Produced
    /\ call.res.val.ayah_count = 3
    /\ VersesLength(call.combined, 3) < 350
    /\ <<call.res.val.surah_number, call.res.val.end_ayah + 1>> \in db.ayah

\* C15: the verses of a unit are stored verses of one surah with
\* consecutive ayah numbers, from start_ayah to end_ayah.
C15_SameSurahConsecutive ==
    Produced =>
        /\ \A i \in 1..Len(call.combined) :
              /\ call.combined[i].surah_number = call.res.val.surah_number
              /\ call.combined[i].ayah_number = call.res.val.start_ayah + i - 1
              /\ <<call.combined[i].surah_number, call.combined[i].ayah_number>> \in db.ayah
        /\ call.res.val.end_ayah = call.res.val.start_ayah + Len(call.combined) - 1

C15_Witness ==
    /\ Produced
    /\ call.res.val.ayah_count = 2
    /\ VersesLength(call.combined, 2) < 350
    /\ <<call.res.val.surah_number, call.res.val.end_ayah + 1>> \notin db.ayah
    /\ <<call.res.val.surah_number, call.res.val.end_ayah + 2>> \in db.ayah

C17_NoUnnecessaryVerse ==
    Produced =>
        /\ \A i \in 2..Len(call.combined) : VersesLength(call.combined, i - 1) < 350
        /\ FieldsLength(call.combined[1]) >= 350 => call.res.val.ayah_count = 1

C17_Witness ==
    /\ Produced
    /\ call.res.val.ayah_count = 1
    /\ FieldsLength(call.combined[1]) >= 350
    /\ <<call.res.val.surah_number, call.res.val.end_ayah + 1>> \in db.ayah
    /\ FieldsLength(call.combined[1])
          + FieldsLength(AyahRow(db, call.res.val.surah_number,
                                 call.res.val.end_ayah + 1)) <= 2000

\* C18: the combiner stops only at a limit: a unit of fewer than
\* MAX_AYAHS_TO_COMBINE verses and fewer than MIN_CONTENT_LENGTH characters
\* is not followed in its surah by the next ayah number with a verse that
\* would keep the total at or below MAX_CONTENT_LENGTH.  Three consecutive
\* verses of 100 characters each are combined into one unit.
C18_Greedy ==
    Produced =>
        LET s == call.res.val.surah_number
            next == call.res.val.end_ayah + 1
            length == VersesLength(call.combined, Len(call.combined))
        IN /\ ~ ( /\ Len(call.combined) < 3
                  /\ length < 350
                  /\ <<s, next>> \in db.ayah
                  /\ length + FieldsLength(AyahRow(db, s, next)) <= 2000 )
           /\ ( /\ call.args = <<4, 1>>
                /\ {<<4, 1>>, <<4, 2>>, <<4, 3>>} \subseteq db.ayah
                /\ db.dirt = <<>> ) =>
                 /\ \A i \in 1..3 : FieldsLength(AyahRow(db, 4, i)) = 100
                 /\ call.res.val.start_ayah = 1 /\ call.res.val.end_ayah = 3

C18_Witness ==
    /\ Produced
    /\ call.args = <<5, 1>> /\ db.dirt = <<>>
    /\ call.res.val.ayah_count = 2
    /\ VersesLength(call.combined, 1) < 350
    /\ VersesLength(call.combined, 2) = 2000

\* The text the claim describes for a translation and for the original
\* script of the verses from the i-th on (field: the name of the text)
RECURSIVE MarkedTexts(_, _, _)
MarkedTexts(verses, field, i) ==
    LET part == verses[i][field]
                   \o << Space, Piece("number", 0, verses[i].ayah_number,
                                      DecimalDigits(verses[i].ayah_number) + 2) >>
    IN IF i = Len(verses) THEN part
       ELSE part \o <<Space>> \o MarkedTexts(verses, field, i + 1)
RECURSIVE SeparatedTexts(_, _)
SeparatedTexts(verses, i) ==
    IF i = Len(verses) THEN verses[i].arabic_text
    ELSE verses[i].arabic_text \o << Space, Piece("glyph", 0, 0, 1) >>
            \o <<Space>> \o SeparatedTexts(verses, i + 1)

\* C19: a unit of one verse carries the verse's three texts as they are; a
\* unit of several verses carries for each translation the verses' texts in
\* order, each followed by " (<its number>)", joined by single spaces, and
\* for the original script the verses' texts in order, each but the last
\* followed by " " and the separator glyph, joined by single spaces.
C19_TextAssembly ==
    Produced =>
        IF Len(call.combined) = 1
        THEN /\ call.res.val.arabic_text = call.combined[1].arabic_text
             /\ call.res.val.urdu_translation = call.combined[1].urdu_translation
             /\ call.res.val.english_translation = call.combined[1].english_translation
        ELSE /\ call.res.val.arabic_text = SeparatedTexts(call.combined, 1)
             /\ call.res.val.urdu_translation =
                    MarkedTexts(call.combined, "urdu_translation", 1)
             /\ call.res.val.english_translation =
                    MarkedTexts(call.combined, "english_translation", 1)

C19_Witness ==
    /\ Produced
    /\ Len(call.combined) = 3
    /\ call.res.val.start_ayah = 2
    /\ db.dirt = <<Tab>>

\* C20: the combiner raises its not-found ValueError when no verse is
\* stored at the position asked for, and a unit it answers starts at the
\* position asked for.
C20_NotFoundAtStart ==
    call.op = "_get_combined_ayahs" =>
        /\ <<call.args[1], call.args[2]>> \notin db.ayah =>
              (~call.res.ok /\ call.res.kind = "ValueError")
        /\ call.res.ok =>
              /\ call.res.val.surah_number = call.args[1]
              /\ call.res.val.start_ayah = call.args[2]

\* The words for weak and for fabricated, in source script and in
\* transliteration
DenyList ==
    { <<"dad", "ain", "farsi_yeh", "feh">>, <<"dad", "ain", "yeh", "feh">>,
      <<"z", "a", "e", "e", "f">>, <<"d", "a", "'", "i", "f">>, <<"d", "a", "i", "f">>,
      <<"w", "e", "a", "k">>, <<"meem", "waw", "dad", "waw", "ain">>,
      <<"m", "a", "w", "d", "u">> }

\* C21: _is_weak_hadith answers true exactly for a grade that holds one of
\* the words of the deny list in any letter case, alone or inside a longer
\* grade ("da'if", "Mawdu" and "WEAK" are weak), and false for an empty grade
\* and for a grade that holds none of them ("Sahih").
C21_WeakGate ==
    lookup.op = "_is_weak_hadith" =>
        /\ lookup.res.val = (lookup.args[1].word \in DenyList)
        /\ lookup.args[1].grade = <<>> => ~lookup.res.val
        /\ lookup.args[1].grade
              \in { <<"d", "a", "'", "i", "f">>, <<"M", "a", "w", "d", "u">>,
                    <<"W", "E", "A", "K">> } => lookup.res.val
        /\ lookup.args[1].grade = <<"S", "a", "h", "i", "h">> => ~lookup.res.val

\* The grade "isnad WEAK jiddan" is found weak
C21_Witness ==
    /\ lookup.op = "_is_weak_hadith"
    /\ lookup.args[1].grade = <<"i", "s", "n", "a", "d", " ", "W", "E", "A", "K",
                                " ", "j", "i", "d", "d", "a", "n">>
    /\ lookup.res.val

\* The grades the sites serve for a weak hadith
WeakServed == { <<"D", "a", "'", "i", "f">>, <<"dad", "ain", "farsi_yeh", "feh">> }

\* The provider is in remote mode
Remote(p) == p.mode = "online" /\ p.scraper

\* How a number is expected to resolve: "fine" (a record that is not weak),
\* "weak", or "fails"
LocalOutcome(p, table, n) ==
    IF p.db /\ n \in table THEN "fine" ELSE "fails"
ExpectedOutcome(p, table, e, n) ==
    IF ~Remote(p) THEN LocalOutcome(p, table, n)
    ELSE IF e.sit[n] \in {"primary", "primary_no_english"} THEN "fine"
    ELSE IF e.sit[n] = "primary_weak" THEN "weak"
    ELSE IF e.sit[n] = "secondary" /\ p.alhadees_scraper THEN "fine"
    ELSE IF e.sit[n] = "secondary_weak" /\ p.alhadees_scraper THEN "weak"
    ELSE IF p.fallback_to_local THEN LocalOutcome(p, table, n)
    ELSE "fails"

\* The local store's successor order: the k-th number after n
SuccessorOf(table, n) ==
    IF \E m \in table : m > n
    THEN CHOOSE m \in table : m > n /\ \A x \in table : x > n => m <= x
    ELSE CHOOSE m \in table : \A x \in table : m <= x
RECURSIVE NthSuccessor(_, _, _)
NthSuccessor(table, n, k) ==
    IF k = 0 THEN n ELSE SuccessorOf(table, NthSuccessor(table, n, k - 1))

\* A call of get_next_hadith that can walk the store
Walked == lookup.op = "get_next_hadith" /\ provider.db /\ db.mishkaat # {}
\* How the k-th number after the current one is expected to resolve
OutcomeOfNth(k) ==
    ExpectedOutcome(provider, db.mishkaat, lookup.env,
                    NthSuccessor(db.mishkaat, lookup.args[1], k))
Exhausted(res) ==
    ~res.ok /\ res.kind = "ValueError" /\ res.msg = "Could not find non-weak hadith"

\* C22: a record get_next_hadith returns is never weak-graded, whatever the
\* current number, max_attempts and the behaviour of the sources.
C22_NeverWeak ==
    (lookup.op = "get_next_hadith" /\ lookup.res.ok) =>
        /\ lookup.res.val.grade \notin WeakServed
        /\ \A w \in DenyList : ~Contains(Lower(lookup.res.val.grade), w)
        /\ ExpectedOutcome(provider, db.mishkaat, lookup.env,
                           lookup.res.val.hadith_number) # "weak"

\* A weak-graded record was met and the record after it returned
C22_Witness ==
    /\ lookup.op = "get_next_hadith"
    /\ lookup.res.ok
    /\ Len(lookup.tried) = 3
    /\ lookup.env.sit[lookup.tried[1]] = "primary_weak"
    /\ lookup.env.sit[lookup.tried[2]] = "secondary_weak"
    /\ Remote(provider)

\* C23 as stated: get_next_hadith returns the first number, in successor
\* order after the current one and among the first max_attempts, that
\* resolves to a record that is not weak.
C23_FirstNonWeak ==
    Walked =>
        LET fine == {k \in 1..lookup.args[2] : OutcomeOfNth(k) = "fine"}
        IN fine # {} =>
              /\ lookup.res.ok
              /\ lookup.res.val.hadith_number
                    = NthSuccessor(db.mishkaat, lookup.args[1], MinOf(fine))

\* C23, as the loop does it: the numbers after the current one are resolved
\* in successor order; weak records are passed over; the first number that
\* does not resolve to a weak record ends the call, with its record when it
\* resolved and with its error when it did not, provided it is among the
\* first max_attempts.
C23_FirstNotWeakEnds ==
    Walked =>
        LET ends == {k \in 1..lookup.args[2] : OutcomeOfNth(k) # "weak"}
        IN ends # {} =>
              /\ lookup.tried = [k \in 1..MinOf(ends) |->
                                    NthSuccessor(db.mishkaat, lookup.args[1], k)]
              /\ lookup.res.ok = (OutcomeOfNth(MinOf(ends)) = "fine")
              /\ lookup.res.ok =>
                    lookup.res.val.hadith_number = lookup.tried[MinOf(ends)]
              /\ ~lookup.res.ok => ~Exhausted(lookup.res)

\* Numbers 1, 2, 3 where 2 resolves weak-graded: get_next_hadith(1, 5)
\* visits 2 and returns 3
C23_Witness ==
    /\ lookup.op = "get_next_hadith"
    /\ db.mishkaat = {1, 2, 3}
    /\ lookup.args = <<1, 5>>
    /\ Remote(provider)
    /\ lookup.env.sit[2] \in {"primary_weak", "secondary_weak"}
    /\ lookup.tried = <<2, 3>>
    /\ lookup.res.ok
    /\ lookup.res.val.hadith_number = 3

\* C24: a call of get_next_hadith resolves at most max_attempts numbers; when
\* its max_attempts successive candidates are all weak, wrapping included, it
\* fails with the exhausted-retries error; with max_attempts = 0 it fails
\* without resolving any number.
C24_BoundedAttempts ==
    lookup.op = "get_next_hadith" =>
        /\ Len(lookup.tried) <= lookup.args[2]
        /\ Len(lookup.calls) = Len(lookup.tried)
        /\ lookup.args[2] = 0 => (~lookup.res.ok /\ lookup.tried = <<>>)
        /\ (Walked /\ \A k \in 1..lookup.args[2] : OutcomeOfNth(k) = "weak") =>
              (Exhausted(lookup.res) /\ Len(lookup.tried) = lookup.args[2])

\* Every record of a table of three is weak: ten numbers are resolved, going
\* round the table, and the call fails
C24_Witness ==
    /\ lookup.op = "get_next_hadith"
    /\ lookup.args[2] = 10
    /\ Cardinality(db.mishkaat) = 3
    /\ Len(lookup.tried) = 10
    /\ lookup.tried[4] = lookup.tried[1]
    /\ Exhausted(lookup.res)

\* The local store's record of a number, as the store itself answers it
LocalEnglish(n) == IF n \in {4629, 4631} THEN HadithText("manual.English", n) ELSE <<>>
LocalRecord(n) ==
    [ hadith_number |-> n,
      arabic_text |-> HadithText("mishkaat.Arabic", n),
      urdu_translation |-> HadithText("mishkaat.Urdu", n),
      english_translation |-> LocalEnglish(n),
      grade |-> <<>>, graded_by |-> <<>> ]
HasLocal(n) == provider.db /\ n \in db.mishkaat

\* A call of get_hadith, the number asked for and what the sites do for it
Resolving == lookup.op = "get_hadith"
Asked == lookup.args[1]
Situation == lookup.env.sit[lookup.args[1]]

\* C25: in remote mode, when sunnah.com serves the number, get_hadith
\* returns its original text, translation, grade and attribution, and every
\* translation it left missing is filled from the local record of the
\* number; a local lookup that fails leaves the field empty.
C25_PrimaryMerged ==
    (Resolving /\ Remote(provider)
        /\ Situation \in {"primary", "primary_weak", "primary_no_english"}) =>
        LET served == ProviderSunnah(Asked, Situation).val
            got == lookup.res.val
        IN /\ lookup.res.ok
           /\ got.hadith_number = Asked
           /\ got.arabic_text = served.arabic_text
           /\ got.grade = served.grade
           /\ got.graded_by = served.graded_by
           /\ got.urdu_translation
                = IF HasLocal(Asked) THEN LocalRecord(Asked).urdu_translation ELSE <<>>
           /\ got.english_translation
                = IF served.english_translation # <<>> THEN served.english_translation
                  ELSE IF HasLocal(Asked) THEN LocalEnglish(Asked)
                  ELSE <<>>

\* The sources a text is made of
SourcesOf(text) == { text[i].k : i \in 1..Len(text) }

\* C26: when sunnah.com fails and al-hadees.com serves the number, the
\* record carries al-hadees.com's original text, Urdu translation and grade,
\* its English translation is the local record's when that has one, and no
\* field of it comes from sunnah.com.
C26_SecondaryMerged ==
    (Resolving /\ Remote(provider) /\ provider.alhadees_scraper
        /\ Situation \in {"secondary", "secondary_weak"}) =>
        LET served == ProviderAlHadees(Asked, Situation).val
            got == lookup.res.val
        IN /\ lookup.res.ok
           /\ got.hadith_number = Asked
           /\ got.arabic_text = served.arabic_text
           /\ got.urdu_translation = served.urdu_translation
           /\ got.grade = served.grade
           /\ got.graded_by = served.graded_by
           /\ (HasLocal(Asked) /\ LocalEnglish(Asked) # <<>>) =>
                 got.english_translation = LocalEnglish(Asked)
           /\ (SourcesOf(got.arabic_text) \cup SourcesOf(got.urdu_translation)
                 \cup SourcesOf(got.english_translation))
                 \cap {"sunnah.arabic", "sunnah.english"} = {}
           /\ lookup.calls[1].calls[1] = "sunnah"

\* Hadith 4629 comes from al-hadees.com and its English from the local store
C26_Witness ==
    /\ Resolving /\ Remote(provider) /\ provider.alhadees_scraper
    /\ Asked = 4629
    /\ Situation = "secondary"
    /\ provider.translation_generator
    /\ lookup.res.ok
    /\ lookup.res.val.english_translation = HadithText("manual.English", 4629)
    /\ lookup.res.val.urdu_translation = HadithText("alhadees.urdu", 4629)

\* The resolutions of the last call in which the translator was called
Translated == { i \in 1..Len(lookup.calls) :
                  \E j \in 1..Len(lookup.calls[i].calls) : lookup.calls[i].calls[j] = "ai" }

\* C27: the translator is called only after al-hadees.com served the number,
\* and only when the local store gave no English translation, a translator
\* is configured and the record is not weak-graded.
C27_TranslatorGated ==
    \A i \in Translated :
        LET n == lookup.tried[i] IN
        /\ Remote(provider) /\ provider.alhadees_scraper
        /\ lookup.env.sit[n] = "secondary"
        /\ lookup.calls[i].calls = <<"sunnah", "alhadees", "ai">>
        /\ provider.translation_generator
        /\ ~(HasLocal(n) /\ LocalEnglish(n) # <<>>)
        /\ lookup.calls[i].res.val.grade \notin WeakServed

\* The translator gave the English text of a hadith from al-hadees.com
C27_Witness ==
    /\ Resolving
    /\ Translated = {1}
    /\ lookup.res.ok
    /\ lookup.res.val.english_translation = HadithText("ai.english", 0)
    /\ lookup.res.val.arabic_text = HadithText("alhadees.arabic", Asked)

\* C28: when both sites fail for a number, get_hadith answers with the local
\* store's record of the number if the fallback is enabled and a local store
\* is attached, and otherwise fails with the all-sources-failed error.
C28_BothFail ==
    (Resolving /\ Remote(provider) /\ Situation = "offline") =>
        IF provider.fallback_to_local /\ provider.db
        THEN IF Asked \in db.mishkaat
             THEN lookup.res.ok /\ lookup.res.val = LocalRecord(Asked)
             ELSE ~lookup.res.ok /\ lookup.res.msg = "Hadith not found"
        ELSE /\ ~lookup.res.ok
             /\ lookup.res.msg = "Failed to fetch hadith from all online sources"

\* Both sites failed and the record came from the local store
C28_Witness ==
    /\ Resolving /\ Remote(provider) /\ Situation = "offline"
    /\ provider.fallback_to_local
    /\ lookup.calls[1].calls = <<"sunnah", "alhadees", "local">>
    /\ lookup.res.ok
    /\ lookup.res.val = LocalRecord(Asked)

\* C29: with remote mode disabled (mode local, which is also what a config
\* file that selects online without enabling it gives), get_hadith and
\* get_next_hadith call no site and no translator: every record is the local
\* store's.
C29_LocalOnly ==
    /\ \A c \in [mode : {"online"}, enabled : {FALSE}, fallback_to_local : BOOLEAN,
                 ai_enabled : BOOLEAN] :
          /\ from_config_file(c).mode = "local"
          /\ \A i \in ProviderInits :
                ~Remote(HadithProviderInit(from_config_file(c), i).val)
    /\ ~Remote(provider) =>
          /\ \A i \in 1..Len(lookup.calls) :
                /\ \A j \in 1..Len(lookup.calls[i].calls) :
                      lookup.calls[i].calls[j] = "local"
                /\ lookup.calls[i].res.ok =>
                      lookup.calls[i].res.val = LocalRecord(lookup.tried[i])
          /\ (lookup.op \in {"get_hadith", "get_next_hadith"} /\ lookup.res.ok) =>
                lookup.res.val = LocalRecord(lookup.res.val.hadith_number)

\* A provider in local mode with a translator answers from the local store
\* a number that sunnah.com would serve weak-graded
C29_Witness ==
    /\ provider.mode = "local"
    /\ provider.translation_generator
    /\ lookup.op = "get_next_hadith"
    /\ lookup.tried = <<2>>
    /\ lookup.env.sit[2] = "primary_weak"
    /\ lookup.res.ok
    /\ lookup.calls[1].calls = <<"local">>

\* The kinds of the all-sources-failed error of get_hadith and of the
\* not-found error of the store
AllSourcesFailed ==
    get_hadith([ mode |-> "online", fallback_to_local |-> FALSE, scraper |-> TRUE,
                 alhadees_scraper |-> TRUE, translation_generator |-> FALSE,
                 db |-> FALSE ],
               db, World([sit |-> [n \in ProviderNumbers |-> "offline"], ai |-> TRUE]),
               1).res
NotFound == DbGetHadith([db EXCEPT !.mishkaat = {}], 1)

\* C30: the exhausted-retries failure of get_next_hadith has an error kind of
\* its own, different from the kind of the all-sources-failed failure of
\* get_hadith and from the kind of not-found.
C30_ExhaustedKindDistinct ==
    (lookup.op = "get_next_hadith" /\ Exhausted(lookup.res)) =>
        /\ lookup.res.kind # AllSourcesFailed.kind
        /\ lookup.res.kind # NotFound.kind

----------------------------------------------------------------------------
(* SpecThrottle: the two scrapers' requests against a clock.  Time is      *)
(* counted in ticks of the clock time.time() reads.                        *)

TicksPerSecond == 2
\* What time.time() reads when the process starts; the scrapers' stamps
\* start at 0, the epoch, which lies further back than the interval
ClockStart == 4
MaxTime == 12
Oversleeps == {0, 1}
Durations == {0, 1, 3}

\* SunnahScraper._min_request_interval and AlHadeesScraper.min_delay, seconds
_min_request_interval == 1
min_delay == 1

\* A limiter that stamps the request without sleeping
RateLimitWithoutSleep(last_request_time, now, over) == now

\* SunnahScraper._rate_limit: the clock's reading when it returns, which is
\* the new _last_request_time.  over: how much longer than asked
\* time.sleep sleeps.
_rate_limit(last_request_time, now, over) ==
    LET elapsed == now - last_request_time IN
    IF elapsed < _min_request_interval * TicksPerSecond
    THEN now + (_min_request_interval * TicksPerSecond - elapsed) + over
    ELSE now

\* AlHadeesScraper._rate_limit
AlHadeesRateLimit(last_request_time, now, over) ==
    LET time_since_last == now - last_request_time IN
    IF time_since_last < min_delay * TicksPerSecond
    THEN now + (min_delay * TicksPerSecond - time_since_last) + over
    ELSE now

Sites == {"sunnah", "alhadees"}
NoRequest == [site |-> "none", arrived |-> 0, stamp_before |-> 0, sent |-> 0]

InitThrottle ==
    /\ db \in Databases
    /\ up = FALSE
    /\ state = NoState
    /\ file = NoFile
    /\ provider = NoProvider
    /\ run = NoRun
    /\ walk = NoWalk
    /\ call = NoCall
    /\ lookup = NoLookup
    /\ throttle = [ now |-> ClockStart,
                    last_request_time |-> [s \in Sites |-> 0],
                    sent |-> [s \in Sites |-> 0],
                    request |-> NoRequest ]
    /\ batch = NoBatch
    /\ translator = NoTranslator

\* Time passes between two requests
Tick ==
    /\ throttle.now < MaxTime
    /\ throttle' = [throttle EXCEPT !.now = @ + 1]
    /\ UNCHANGED <<db, up, state, file, provider, run, walk, call, lookup, batch, translator>>

\* One request of a scraper: _rate_limit, then requests.get, which answers
\* or times out after duration ticks
Request(site, sent_at, duration) ==
    /\ sent_at + duration <= MaxTime
    /\ throttle' = [ throttle EXCEPT
                       !.now = sent_at + duration,
                       !.last_request_time[site] = sent_at,
                       !.sent[site] = @ + 1,
                       !.request = [ site |-> site, arrived |-> throttle.now,
                                     stamp_before |-> throttle.last_request_time[site],
                                     sent |-> sent_at ] ]
    /\ UNCHANGED <<db, up, state, file, provider, run, walk, call, lookup, batch, translator>>

\* SunnahScraper.get_hadith, as far as the clock goes
SunnahRequest(over, duration) ==
    Request("sunnah",
            _rate_limit(throttle.last_request_time["sunnah"], throttle.now, over),
            duration)

\* AlHadeesScraper.get_hadith, as far as the clock goes
AlHadeesRequest(over, duration) ==
    Request("alhadees",
            AlHadeesRateLimit(throttle.last_request_time["alhadees"], throttle.now, over),
            duration)

NextThrottle ==
    \/ Tick
    \/ \E over \in Oversleeps, duration \in Durations : SunnahRequest(over, duration)
    \/ \E over \in Oversleeps, duration \in Durations : AlHadeesRequest(over, duration)

SpecThrottle == InitThrottle /\ [][NextThrottle]_vars

----------------------------------------------------------------------------
(* SpecKeys: a TranslationGenerator and its API keys, call after call *)

MaxKeys == 3

\* TranslationGenerator.__init__ on an api_key string in which count keys are
\* left after splitting at the commas and dropping the blank parts: the
\* list's length and current_key_index
TranslationGeneratorInit(count) == [api_keys |-> count, current_key_index |-> 0]

\* TranslationGenerator._rotate_api_key: the new index, and what it returns
_rotate_api_key(t) ==
    [ current_key_index |-> t.current_key_index + 1,
      rotated |-> t.current_key_index + 1 < t.api_keys ]

\* A rotation that starts again at the first key when the keys are used up
RotateWrapping(t) ==
    [ current_key_index |-> IF t.current_key_index + 1 < t.api_keys
                            THEN t.current_key_index + 1 ELSE 0,
      rotated |-> t.current_key_index + 1 < t.api_keys ]

\* What the service answers to a request made with a key
Answers == {"ok", "rate_limit", "error"}

\* The loop of generate_translation from its attempt-th iteration on.
\* answers[k] is what the service answers, during this call, to key number
\* k (the first key is number 1, at index 0).  The result, the generator's
\* index afterwards, and the indexes of the keys requests were made with.
RECURSIVE GenerateLoop(_, _, _, _)
GenerateLoop(t, answers, attempt, tried) ==
    IF attempt >= t.api_keys
    THEN [ res |-> Raise("Exception", "AI translation failed"),
           current_key_index |-> t.current_key_index, tried |-> tried ]
    ELSE IF t.current_key_index >= t.api_keys
    THEN [ res |-> Raise("IndexError", "list index out of range"),
           current_key_index |-> t.current_key_index, tried |-> tried ]
    ELSE LET answer == answers[t.current_key_index + 1]
             used == Append(tried, t.current_key_index)
             next == _rotate_api_key(t)
         IN CASE answer = "ok" ->
                   [ res |-> Return(HadithText("ai.english", 0)),
                     current_key_index |-> t.current_key_index, tried |-> used ]
              [] answer = "error" ->
                   [ res |-> Raise("Exception", "AI translation failed"),
                     current_key_index |-> t.current_key_index, tried |-> used ]
              [] answer = "rate_limit" ->
                   IF next.rotated
                   THEN GenerateLoop([t EXCEPT !.current_key_index = next.current_key_index],
                                     answers, attempt + 1, used)
                   ELSE [ res |-> Raise("Exception", "All API keys exhausted"),
                          current_key_index |-> next.current_key_index, tried |-> used ]

\* TranslationGenerator.generate_translation
generate_translation(t, answers) == GenerateLoop(t, answers, 0, <<>>)

NoTranslation == [op |-> "none", start |-> 0, answers |-> <<>>, res |-> <<>>, tried |-> <<>>]

InitKeys ==
    /\ db \in Databases
    /\ up = FALSE
    /\ state = NoState
    /\ file = NoFile
    /\ provider = NoProvider
    /\ run = NoRun
    /\ walk = NoWalk
    /\ call = NoCall
    /\ lookup = NoLookup
    /\ throttle = NoThrottle
    /\ batch = NoBatch
    /\ \E count \in 1..MaxKeys :
          translator = [ generator |-> TranslationGeneratorInit(count),
                         last |-> NoTranslation ]

\* A call of TranslationGenerator.generate_translation
GenerateTranslation(answers) ==
    /\ \E out \in {generate_translation(translator.generator, answers)} :
          translator' =
              [ generator |-> [translator.generator EXCEPT
                                 !.current_key_index = out.current_key_index],
                last |-> [ op |-> "generate_translation",
                           start |-> translator.generator.current_key_index,
                           answers |-> answers, res |-> out.res, tried |-> out.tried ] ]
    /\ UNCHANGED <<db, up, state, file, provider, run, walk, call, lookup, throttle, batch>>

\* A new TranslationGenerator is built, as each start of the process does
NewTranslationGenerator(count) ==
    /\ translator.last # NoTranslation
    /\ translator' = [generator |-> TranslationGeneratorInit(count), last |-> NoTranslation]
    /\ UNCHANGED <<db, up, state, file, provider, run, walk, call, lookup, throttle, batch>>

NextKeys ==
    \/ \E answers \in [1..translator.generator.api_keys -> Answers] :
          GenerateTranslation(answers)
    \/ \E count \in 1..MaxKeys : NewTranslationGenerator(count)

SpecKeys == InitKeys /\ [][NextKeys]_vars

----------------------------------------------------------------------------
(* SpecMain: whole runs of main() with --days N, on the state files that   *)
(* callers of update_after_generation leave behind.                        *)

MaxDays == 3

\* date + timedelta(days=1) and date + timedelta(days=i)
IsLeap(y) == (y % 4 = 0 /\ y % 100 # 0) \/ y % 400 = 0
DaysInMonth(y, m) ==
    IF m = 2 THEN (IF IsLeap(y) THEN 29 ELSE 28)
    ELSE IF m \in {4, 6, 9, 11} THEN 30 ELSE 31
NextDay(d) ==
    IF d[3] < DaysInMonth(d[1], d[2]) THEN <<d[1], d[2], d[3] + 1>>
    ELSE IF d[2] < 12 THEN <<d[1], d[2] + 1, 1>>
    ELSE <<d[1] + 1, 1, 1>>
RECURSIVE AddDays(_, _)
AddDays(d, i) == IF i = 0 THEN d ELSE NextDay(AddDays(d, i - 1))

\* The days the clock shows when main() starts
MainTodays == { <<2023, 12, 31>>, <<2024, 2, 28>>, <<2024, 1, 9>> }

\* What each date of a run meets.  --skip-review holds for the whole run.
DayInputs == { i \in Inputs : i.net = "up" /\ i.render = "ok" }
RunInputs(num_days) ==
    { f \in [1..num_days -> DayInputs] :
        \A j, k \in 1..num_days :
            (f[j].review = "skip") = (f[k].review = "skip") }

\* The run after generate_for_date answered o for the date
AfterDay(b, o, date) ==
    [ b EXCEPT !.processed = Append(@, [ date |-> date, stage |-> o.stage,
                                         file |-> IF o.saved_state THEN o.state
                                                  ELSE b.file ]),
               !.state = o.state,
               !.file = IF o.saved_state THEN o.state ELSE b.file ]

\* The run after Ctrl-C arrived during the date
Interrupted(b, date) ==
    [ b EXCEPT !.ended = "summary", !.cancelled = TRUE,
               !.processed = Append(@, [date |-> date, stage |-> "interrupted",
                                        file |-> b.file]) ]

\* A loop that takes every False of generate_for_date for a skipped date
RECURSIVE MainLoopSkippingCancelled(_, _, _, _, _, _, _)
MainLoopSkippingCancelled(b, p, d, today, inputs, interrupt_at, day_num) ==
    IF day_num > b.num_days THEN [b EXCEPT !.ended = "summary"]
    ELSE IF interrupt_at = day_num THEN Interrupted(b, AddDays(today, day_num - 1))
    ELSE CHOOSE out \in {
           CHOOSE next \in {
               CASE o.result = "raised" -> [after EXCEPT !.ended = "raised"]
                 [] o.result = "True" ->
                      MainLoopSkippingCancelled([after EXCEPT !.successful = @ + 1], p, d,
                                                today, inputs, interrupt_at, day_num + 1)
                 [] OTHER ->
                      MainLoopSkippingCancelled([after EXCEPT !.skipped = @ + 1], p, d,
                                                today, inputs, interrupt_at, day_num + 1)
             : after \in {AfterDay(b, o, AddDays(today, day_num - 1))} } : TRUE
         : o \in { generate_for_date(b.state, p, d, AddDays(today, day_num - 1),
                                     inputs[day_num].review, inputs[day_num].db_error,
                                     Env(inputs[day_num].net, TRUE),
                                     inputs[day_num].render) } } : TRUE

\* The loop of main() over dates_to_generate from the day_num-th date on
\* (main.py:527-557).  b: the run so far, with the StateManager's state and
\* the state file.  interrupt_at: the date during which Ctrl-C arrives, 0
\* for none.
RECURSIVE MainLoop(_, _, _, _, _, _, _)
MainLoop(b, p, d, today, inputs, interrupt_at, day_num) ==
    IF day_num > b.num_days THEN [b EXCEPT !.ended = "summary"]
    ELSE IF interrupt_at = day_num THEN Interrupted(b, AddDays(today, day_num - 1))
    ELSE CHOOSE out \in {
           CHOOSE next \in {
               CASE o.result = "raised" -> [after EXCEPT !.ended = "raised"]
                 [] o.result = "True" ->
                      MainLoop([after EXCEPT !.successful = @ + 1], p, d, today, inputs,
                               interrupt_at, day_num + 1)
                 [] should_generate_for_date(o.state, AddDays(today, day_num - 1)) ->
                      [after EXCEPT !.ended = "summary", !.cancelled = TRUE]
                 [] OTHER ->
                      MainLoop([after EXCEPT !.skipped = @ + 1], p, d, today, inputs,
                               interrupt_at, day_num + 1)
             : after \in {AfterDay(b, o, AddDays(today, day_num - 1))} } : TRUE
         : o \in { generate_for_date(b.state, p, d, AddDays(today, day_num - 1),
                                     inputs[day_num].review, inputs[day_num].db_error,
                                     Env(inputs[day_num].net, TRUE),
                                     inputs[day_num].render) } } : TRUE

\* main() with --days num_days, started on the state file f: the arguments
\* are checked, the StateManager and the provider are built, the dates are
\* gone through and the summary's remaining count is computed.
main(f, d, num_days, today, inputs, interrupt_at) ==
    LET loaded == LoadState(f)
        built == HadithProviderInit(from_config_file(ApiConfig), ApiInit)
        begun == [ NoBatch EXCEPT !.op = "main", !.num_days = num_days, !.today = today,
                                 !.loaded = loaded.file, !.state = loaded.state,
                                 !.file = loaded.file ]
    IN  IF num_days < 1
        THEN [begun EXCEPT !.ended = "usage", !.state = NoState, !.file = f, !.loaded = f]
        ELSE IF ~built.ok THEN [begun EXCEPT !.ended = "raised"]
        ELSE CHOOSE out \in {
               [ b EXCEPT !.remaining = b.num_days - b.successful - b.skipped ]
             : b \in { MainLoop(begun, built.val, d, today, inputs, interrupt_at, 1) } } : TRUE

InitMain ==
    /\ db = [ayah |-> FixtureGrid, mishkaat |-> Mishkaat, dirt |-> <<>>]
    /\ up = FALSE
    /\ state = NoState
    /\ file = NoFile
    /\ provider = NoProvider
    /\ run = NoRun
    /\ walk = NoWalk
    /\ call = NoCall
    /\ lookup = NoLookup
    /\ throttle = NoThrottle
    /\ batch = NoBatch
    /\ translator = NoTranslator

\* A whole run of main(); the process has ended when it is over
Main(num_days, today, inputs, interrupt_at) ==
    /\ ~up
    /\ batch = NoBatch
    /\ \E b \in {main(file, db, num_days, today, inputs, interrupt_at)} :
          /\ batch' = b
          /\ file' = b.file
    /\ UNCHANGED <<db, up, state, provider, run, walk, call, lookup, throttle, translator>>

\* The run's report has been read
MainReturn ==
    /\ batch # NoBatch
    /\ batch' = NoBatch
    /\ UNCHANGED <<db, up, state, file, provider, run, walk, call, lookup, throttle, translator>>

\* A caller of the StateManager records a date
MainRecorded(target_date) ==
    /\ batch = NoBatch
    /\ UpdateAfterGeneration("both", Some(2), Some(2), Some(3), target_date, SentinelDate)

NextMain ==
    \/ batch = NoBatch /\ Start(ApiConfig, ApiInit)
    \/ batch = NoBatch /\ Exit
    \/ \E t \in MainTodays \cup {<<2024, 1, 1>>, <<2024, 3, 1>>} : MainRecorded(t)
    \/ batch = NoBatch /\
          \E num_days \in 0..MaxDays, today \in MainTodays :
             \E inputs \in RunInputs(num_days), interrupt_at \in 0..num_days :
                Main(num_days, today, inputs, interrupt_at)
    \/ MainReturn

SpecMain == InitMain /\ [][NextMain]_vars

----------------------------------------------------------------------------
(* The hadith cursor across runs *)

\* C31: after a run of generate_for_date in which nothing outside it fails
\* (the date is due, verse and hadith are fetched, the user does not cancel,
\* the renderer and the disk work), the persisted last_hadith is the number
\* of the record the run returned, so the next run starts after it and the
\* weak entries the run skipped are not tried again.
C31_CursorFollowsReturned ==
    Healthy(run) =>
        /\ file.last_hadith = run.hadith
        /\ state.last_hadith = run.hadith

\* C32: get_next_hadith takes the order of the numbers it tries from the
\* local store in every mode: the k-th number tried is the k-th successor of
\* the current number in the store, whatever sources resolve the records;
\* and a provider with no local store attached fails the call with
\* "Local database required" before any number is tried or any source asked.
C32_StoreSequences ==
    lookup.op = "get_next_hadith" =>
        /\ ~provider.db =>
              /\ lookup.res = Raise("ValueError", "Local database required")
              /\ lookup.tried = <<>>
              /\ lookup.calls = <<>>
        /\ Walked =>
              \A k \in 1..Len(lookup.tried) :
                  lookup.tried[k] = NthSuccessor(db.mishkaat, lookup.args[1], k)

\* A remote provider without a local store is asked for the next hadith
\* while sunnah.com would serve every number
C32_Witness ==
    /\ lookup.op = "get_next_hadith"
    /\ ~provider.db
    /\ provider.scraper
    /\ lookup.args[2] > 0
    /\ db.mishkaat # {}
    /\ \A n \in db.mishkaat : lookup.env.sit[n] = "primary"

----------------------------------------------------------------------------
(* The order of the sources inside one resolution *)

\* How often a source is called in one resolution, and where
CountOf(calls, source) == Cardinality({i \in 1..Len(calls) : calls[i] = source})
Before(calls, a, b) ==
    \A j \in 1..Len(calls) : calls[j] = b => \E i \in 1..(j - 1) : calls[i] = a
\* The resolution number k of the last call is a lawful cascade
Cascade(k) ==
    LET n == lookup.tried[k]
        calls == lookup.calls[k].calls
        w == World(lookup.env)
    IN  /\ CountOf(calls, "sunnah") <= 1
        /\ CountOf(calls, "alhadees") <= 1
        /\ CountOf(calls, "local") <= 1
        /\ CountOf(calls, "alhadees") = 1 =>
              /\ Before(calls, "sunnah", "alhadees")
              /\ ~w.sunnah[n].ok
        /\ CountOf(calls, "local") = 1 =>
              /\ calls[Len(calls)] = "local"
              /\ Remote(provider) =>
                    /\ CountOf(calls, "sunnah") = 1 /\ ~w.sunnah[n].ok
                    /\ provider.alhadees_scraper =>
                          CountOf(calls, "alhadees") = 1 /\ ~w.alhadees[n].ok
        /\ (Remote(provider) /\ w.sunnah[n].ok) => calls = <<"sunnah">>

\* C33: inside one resolution of a number sunnah.com is asked at most once,
\* al-hadees.com at most once and only after sunnah.com failed, and the
\* local store is taken as the record's source only after every remote
\* source the provider has was asked and failed (a timeout is a failure).
C33_CascadeOrder ==
    lookup.op \in {"get_hadith", "get_next_hadith"} =>
        \A k \in 1..Len(lookup.calls) : Cascade(k)

\* Both sites time out and the record of the local store is answered
C33_Witness ==
    /\ lookup.op = "get_hadith"
    /\ lookup.calls[1].calls = <<"sunnah", "alhadees", "local">>
    /\ lookup.res.ok
    /\ Situation = "offline"

----------------------------------------------------------------------------
(* Filling the gaps of a remote record *)

\* C34: filling the gaps of a record a site served is best effort.  When
\* sunnah.com serves the number and the local lookup for the Urdu text
\* fails, get_hadith answers the record with the Urdu text empty; when
\* al-hadees.com serves it, the local store gives no English text and the
\* translator fails, is absent or is not asked, get_hadith answers the
\* record with the English text empty.  In neither case does it fail.
C34_FillBestEffort ==
    (Resolving /\ Remote(provider)) =>
        /\ Situation \in {"primary", "primary_weak", "primary_no_english"} =>
              /\ lookup.res.ok
              /\ lookup.res.val.arabic_text = HadithText("sunnah.arabic", Asked)
              /\ ~HasLocal(Asked) => lookup.res.val.urdu_translation = <<>>
        /\ (Situation \in {"secondary", "secondary_weak"} /\ provider.alhadees_scraper) =>
              /\ lookup.res.ok
              /\ lookup.res.val.arabic_text = HadithText("alhadees.arabic", Asked)
              /\ ( /\ ~(HasLocal(Asked) /\ LocalEnglish(Asked) # <<>>)
                    /\ (Translated = {} \/ ~lookup.env.ai) ) =>
                    lookup.res.val.english_translation = <<>>

\* al-hadees.com serves a number the local store does not hold and the
\* translator, asked for the English text, fails
C34_Witness ==
    /\ Resolving
    /\ Situation = "secondary"
    /\ ~HasLocal(Asked)
    /\ provider.db
    /\ Translated = {1}
    /\ ~lookup.env.ai
    /\ lookup.res.ok
    /\ lookup.res.val.english_translation = <<>>
    /\ lookup.res.val.urdu_translation = HadithText("alhadees.urdu", Asked)

----------------------------------------------------------------------------
(* The state file and the state in memory *)

\* C35: while a StateManager exists the state file holds its in-memory
\* state: after its construction, after every update_after_generation and
\* after every reset_state; and a StateManager constructed on the file a
\* previous one left resumes with exactly the state that one had.
C35_FileIsState ==
    /\ up =>
          /\ file # NoFile
          /\ file = state
          /\ LoadState(file) = [state |-> state, file |-> file]
    /\ (run.op = "start" /\ run.file_before # NoFile) =>
          /\ state = run.file_before
          /\ file = run.file_before

\* A process started on the file an earlier process left after an update
C35_Witness ==
    /\ run.op = "start"
    /\ up
    /\ run.file_before \notin {NoFile, DefaultState}
    /\ state = run.file_before
    /\ state.last_hadith # 0

----------------------------------------------------------------------------
(* The two gates *)

\* C38: whatever the recorded last_date, should_generate_today() and
\* should_generate_for_date(today) give the same answer on every day the
\* clock can show (the days after the sentinel date), also after a later
\* date than today was recorded.
C38_GatesAgree ==
    up => \A today \in {d \in Dates : DateLess(SentinelDate, d)} :
              should_generate_today(state, today) = should_generate_for_date(state, today)

----------------------------------------------------------------------------
(* The calls of the renderer *)

\* C40: the keyword arguments generate_for_date passes to
\* generate_ayat_image and to generate_hadith_image are parameters of those
\* functions, so no run that reaches rendering ends with a TypeError, and a
\* run whose renderer and disk work goes on to the state update.
C40_RendererAcceptsArguments ==
    run.op = "generate" =>
        /\ run.error # "TypeError"
        /\ run.stage \in {"render", "done"} =>
              /\ AyatImageKwargs \subseteq AyatImageParams
              /\ HadithImageKwargs \subseteq HadithImageParams
        /\ Healthy(run) => run.stage = "done"

----------------------------------------------------------------------------
(* The spacing of the requests *)

\* C36: two consecutive requests of the same scraper are sent at least the
\* minimum interval (one second) apart: a request that arrives earlier is
\* sent when the interval has elapsed, one that arrives later is sent at
\* once; no request is given up.
C36_Spacing ==
    throttle.request.site \in Sites =>
        LET r == throttle.request IN
        /\ r.sent >= r.arrived
        /\ r.sent - r.stamp_before >= 1 * TicksPerSecond
        /\ r.arrived - r.stamp_before >= 1 * TicksPerSecond => r.sent = r.arrived
        /\ throttle.last_request_time[r.site] = r.sent
        /\ throttle.sent[r.site] > 0

\* A request that arrived half a second after the previous one of the same
\* scraper and was sent half a second later
C36_Witness ==
    /\ throttle.request.site = "sunnah"
    /\ throttle.sent["sunnah"] >= 2
    /\ throttle.request.arrived - throttle.request.stamp_before < TicksPerSecond
    /\ throttle.request.sent > throttle.request.arrived
    /\ throttle.request.sent - throttle.request.stamp_before = TicksPerSecond

----------------------------------------------------------------------------
(* The rotation of the API keys *)

\* C39: at the start of every generate_translation call current_key_index
\* is an index of api_keys; the call makes a request with at least one key,
\* uses the keys in ascending order and none twice, and when it fails it
\* fails with one of its two translation errors.
C39_IndexValid ==
    /\ translator.generator.current_key_index \in 0..(translator.generator.api_keys - 1)
    /\ translator.last.op = "generate_translation" =>
          LET c == translator.last IN
          /\ c.start \in 0..(translator.generator.api_keys - 1)
          /\ Len(c.tried) >= 1
          /\ \A i, j \in 1..Len(c.tried) : i < j => c.tried[i] < c.tried[j]
          /\ ~c.res.ok =>
                /\ c.res.kind = "Exception"
                /\ c.res.msg \in {"All API keys exhausted", "AI translation failed"}

----------------------------------------------------------------------------
(* A run over several days *)

\* The dates of the last run that ended in the given stages
Ended(stages) ==
    {k \in 1..Len(batch.processed) : batch.processed[k].stage \in stages}
\* The state file when the k-th date of the run was begun
FileBefore(k) == IF k = 1 THEN batch.loaded ELSE batch.processed[k - 1].file

\* C37: a run of main() over N days takes the dates today, today + 1, ...
\* in this order; after a date that is skipped as already generated it goes
\* on with the next date; a date the user cancels is the last one it
\* touches, and the state file stays what it was before that date; and
\* when the run reaches its summary, the dates generated, the dates skipped
\* and the remaining count add up to N, the remaining count being the dates
\* that were neither generated nor skipped.
C37_MultiDayRun ==
    (batch.op = "main" /\ batch.num_days >= 1) =>
        LET n == Len(batch.processed) IN
        /\ n <= batch.num_days
        /\ \A k \in 1..n : batch.processed[k].date = AddDays(batch.today, k - 1)
        /\ \A j, k \in 1..n : j < k => DateLess(batch.processed[j].date,
                                                 batch.processed[k].date)
        /\ \A k \in 1..n :
              /\ k < n => batch.processed[k].stage \in {"skipped", "done"}
              /\ (batch.processed[k].stage = "skipped" /\ k < batch.num_days) => n > k
              /\ batch.processed[k].stage \in {"cancelled", "interrupted"} =>
                    /\ k = n
                    /\ batch.cancelled
                    /\ batch.ended = "summary"
                    /\ file = FileBefore(k)
        /\ batch.ended = "summary" =>
              /\ batch.successful = Cardinality(Ended({"done"}))
              /\ batch.skipped = Cardinality(Ended({"skipped"}))
              /\ batch.remaining =
                    (batch.num_days - n) + Cardinality(Ended({"cancelled", "interrupted"}))
              /\ batch.successful + batch.skipped + batch.remaining = batch.num_days
              /\ ~batch.cancelled => batch.remaining = 0

\* A run over three days, started on the last day of a year: the first date
\* is on file and skipped, the second is cancelled at the review, the third
\* is not touched
C37_Witness ==
    /\ batch.op = "main"
    /\ batch.num_days = 3
    /\ batch.today = <<2023, 12, 31>>
    /\ Len(batch.processed) = 2
    /\ batch.processed[1].stage = "skipped"
    /\ batch.processed[2].stage = "cancelled"
    /\ batch.processed[2].date = <<2024, 1, 1>>
    /\ batch.ended = "summary"
    /\ batch.skipped = 1 /\ batch.remaining = 2

============================================================================
